---- MODULE Spec2Model ----
(***************************************************************************)
(* Catalog API (droksv73/catalog-api): the four server versions kept in    *)
(* the repository, modelled over one store.                                *)
(*                                                                         *)
(*   "A"   src/index.js lines 1-351     (dbQuery helper, SQL cart)         *)
(*   "B"   src/index.js lines 353-1034  (BOM admin routes, orders, media)  *)
(*   "P0"  src/unnamed/part_000         (createItem with parent link)      *)
(*   "P1"  src/unnamed/part_001         (cart kept in process memory)      *)
(*                                                                         *)
(* A request handler is a sequence of storage calls separated by awaits.   *)
(* A handler with one storage call is one action; a handler with several   *)
(* is one action per storage call, the synchronous code before the first   *)
(* call and after the last one being part of those actions.                *)
(***************************************************************************)
EXTENDS Integers, FiniteSets, Sequences, TLC

VARIABLES
  variant,        \* which server version is deployed
  fk,             \* the schema declares the foreign keys of part_000's header
  products,       \* ids of the rows of table products
  nextProductId,  \* products.id serial
  bom_items,      \* rows of table bom_items: [id, parent, child, quantity]
  nextBomId,      \* bom_items.id serial
  cart_items,     \* cart lines in id order: [id, product_id, quantity]
  nextCartId,     \* cart_items.id serial / nextCartId of part_001
  attrs,          \* the other columns of products, by id
  uploads,        \* byte sizes of the files in the uploads directory
  orders,         \* ids of the rows of table orders
  order_items,    \* rows of table order_items in id order:
                  \* [order_id, product_id, quantity]
  nextOrderId,    \* orders.id serial
  reqs            \* request slots: the handler running in each, or its response

vars == <<variant, fk, products, nextProductId, bom_items, nextBomId,
          cart_items, nextCartId, attrs, uploads, orders, order_items,
          nextOrderId, reqs>>

schema == <<variant, fk>>
catalog == <<products, nextProductId, bom_items, nextBomId>>
cartVars == <<cart_items, nextCartId>>
files == <<attrs, uploads>>
orderVars == <<orders, order_items, nextOrderId>>

----------------------------------------------------------------------------
(* Bounds *)

MaxProducts == 3
MaxBom == 2
MaxCart == 2
MaxCatalogCart == 1
MaxQty == 2
MaxLineQty == 3
MaxUploads == 2
MaxOrders == 2

----------------------------------------------------------------------------
(* Inputs.  An optional request field is <<>> when it is absent (or, for   *)
(* an id, not a number) and <<v>> when it carries the number v.            *)

Variants == {"A", "B", "P0", "P1"}

Creds == {"none", "invalid", "user", "admin"}

\* The ids requests carry: those the serial hands out and one it never does
IdInputs == {<<>>} \cup {<<i>> : i \in 1..MaxProducts + 1}

BomIdInputs == {<<>>} \cup {<<i>> : i \in 1..MaxBom}

QtyInputs == {<<>>} \cup {<<q>> : q \in 0..MaxQty}

\* A column value: Null, or <<v>> for the value v
Null == <<>>

\* A field of a request body: Absent, or <<c>> for the column value c sent
\* (<<Null>> is an explicit null)
Absent == <<>>

\* Request bodies of createItem and updateItem.  code stands for code and
\* name, mass_kg for the four numeric columns.
GoodBody ==
  [code |-> <<<<"K">>>>, type |-> <<<<"Assembly">>>>, mass_kg |-> <<<<1>>>>]

EmptyBody == [code |-> Absent, type |-> Absent, mass_kg |-> Absent]

\* The bodies tried: complete, empty, with a type outside the three kinds,
\* with a negative number, with an explicit null, with one field only
Bodies ==
  {GoodBody, EmptyBody,
   [GoodBody EXCEPT !.type = <<<<"Widget">>>>],
   [GoodBody EXCEPT !.mass_kg = <<<<-1>>>>],
   [EmptyBody EXCEPT !.mass_kg = <<Null>>],
   [EmptyBody EXCEPT !.type = <<<<"Part">>>>]}

\* The bodies tried while the order of the listings is explored: the code of
\* the second sorts before that of the first
OrderBodies == {GoodBody, [GoodBody EXCEPT !.code = <<<<"A">>>>]}

\* The codes in use, in the order of the collation
Codes == <<"A", "K">>

\* a sorts before b under ORDER BY code (ascending, NULLs last); rows with
\* equal codes are taken in the order of their ids
CodeRank(c) == IF c = Null THEN Len(Codes) + 1
               ELSE CHOOSE i \in 1..Len(Codes) : Codes[i] = c[1]

\* The bodies tried while the catalog is explored
PlainBodies == {GoodBody, EmptyBody}

\* A destructured field given to the driver: undefined is sent as NULL
Given(f) == IF f = Absent THEN Null ELSE f[1]

\* !field of JavaScript, for an absent or null field
Falsy(f) == f = Absent \/ f[1] = Null

\* COALESCE(a, b)
COALESCE(a, b) == IF a = Null THEN b ELSE a

ProductRow(code, type, mass_kg, image2d_url) ==
  [code |-> code, type |-> type, mass_kg |-> mass_kg,
   image2d_url |-> image2d_url]

NoRow == ProductRow(Null, Null, Null, Null)

\* The row INSERT INTO products (code, ..., type, mass_kg, ...) stores
RowOf(body) ==
  ProductRow(Given(body.code), Given(body.type), Given(body.mass_kg), Null)

\* UPDATE products SET code = $1, ..., type = $3, mass_kg = $4, ...
SetRow(row, body) ==
  [row EXCEPT !.code = Given(body.code), !.type = Given(body.type),
              !.mass_kg = Given(body.mass_kg)]

\* UPDATE products SET code = COALESCE($1, code), ...
CoalesceRow(row, body) ==
  [row EXCEPT !.code = COALESCE(Given(body.code), @),
              !.type = COALESCE(Given(body.type), @),
              !.mass_kg = COALESCE(Given(body.mass_kg), @)]

\* STORAGE_LIMIT_BYTES = 2 * 1024 * 1024 * 1024, counted in KiB: 2 GiB in
\* bytes is beyond the integers of TLC.
STORAGE_LIMIT_KIB == 2 * 1024 * 1024

\* The sizes of the files sent, in KiB: 1 KiB, 1 GiB, 2 GiB
FileSizes == {1, 1024 * 1024, 2 * 1024 * 1024}

\* req.file: <<>> when the request carries no file, else <<size>>
FileInputs == {<<>>} \cup {<<n>> : n \in FileSizes}

\* The kind field of the media form
KindInputs == {<<>>, <<"image">>, <<"model">>, <<"other">>}

\* The last segment of the paths DELETE /api/cart/<segment> tried
CartSegments == {"1", "2", "3", "clear"}

\* The paths below /api/cart tried: /api/cart itself and /api/cart/<segment>
CartPaths == {<<>>} \cup {<<g>> : g \in CartSegments}

NaN == <<>>

\* Number(req.params.id): <<n>>, or NaN for a segment that is no number
Number(g) ==
  IF g = "1" THEN <<1>> ELSE IF g = "2" THEN <<2>> ELSE IF g = "3" THEN <<3>>
  ELSE NaN

\* A route of Express matches the path: /api/cart/:id matches any one
\* segment, the other routes their own path only
Match(route, path) ==
  IF route.path = <<":id">> THEN Len(path) = 1 ELSE path = route.path

\* The handler Express runs: that of the first route registered that
\* matches, "noRoute" when none does
Dispatch(routes, path) ==
  LET hits == {i \in 1..Len(routes) : Match(routes[i], path)} IN
  IF hits = {} THEN "noRoute"
  ELSE routes[CHOOSE i \in hits : \A j \in hits : i <= j].handler

Route(path, handler) == [path |-> path, handler |-> handler]

\* The cart quantities tried while the catalog is explored
DefaultQty == {<<>>}

\* The quantities a merged cart line is followed through
LineQtys == -1..MaxLineQty

\* The quantities POST /api/cart/add is sent
CartQtyInputs == {<<>>} \cup {<<q>> : q \in -1..MaxQty}

\* What a reader can see of the store.
View == <<products, bom_items, cart_items>>

Slots == {1, 2}

Idle ==
  [op |-> "none", pc |-> "idle", status |-> 0, id |-> 0, child |-> 0,
   qty |-> 0, fault |-> FALSE, newId |-> 0, edge |-> 0, dirty |-> FALSE,
   given |-> <<>>, line |-> 0, seen |-> 0, size |-> 0, user |-> "none",
   rows |-> {}, found |-> <<>>, items |-> <<>>, client |-> "none"]

\* A slot no request ever uses
Off == [Idle EXCEPT !.pc = "off"]

Free(s) == reqs[s].pc \in {"idle", "done"}

\* A request as its handler has read it.
Req(op, id, child, qty) ==
  [Idle EXCEPT !.op = op, !.id = id, !.child = child, !.qty = qty]

\* A request of an admin-protected route, with the credential it carries
ReqBy(cred, op, id, child, qty) ==
  [Req(op, id, child, qty) EXCEPT !.user = cred]

\* res.status(st).json(...): the handler in slot s is finished.  fault tells
\* that a storage call of the request failed for a reason outside the request;
\* dirty, that an earlier statement of the request has changed rows.
Respond(s, r, st, fault) ==
  reqs' = [reqs EXCEPT ![s] =
             [r EXCEPT !.pc = "done", !.status = st, !.fault = fault]]

\* The handler in slot s awaits its next storage call at pc.
Await(s, r, pc) ==
  reqs' = [reqs EXCEPT ![s] = [r EXCEPT !.pc = pc]]

\* The handler in slot s ends by an exception nothing catches: nothing is
\* sent to the client.
Drop(s, r) ==
  reqs' = [reqs EXCEPT ![s] = [r EXCEPT !.pc = "dropped"]]

----------------------------------------------------------------------------
(* Admin verification.  0: next() is called; otherwise the status sent.    *)

requireAdminA(cred) ==
  IF cred = "none" THEN 401
  ELSE IF cred = "invalid" THEN 401
  ELSE IF cred = "user" THEN 403
  ELSE 0

requireAdminB(cred) ==
  IF cred = "none" THEN 401
  ELSE IF cred = "invalid" THEN 401
  ELSE IF cred = "user" THEN 401
  ELSE 0

authRequired(cred) ==
  IF cred = "none" THEN 401
  ELSE IF cred = "invalid" THEN 401
  ELSE 0

requireAdminP1(cred) ==
  IF cred = "none" THEN 401
  ELSE IF cred = "invalid" THEN 401
  ELSE IF cred = "user" THEN 403
  ELSE 0

----------------------------------------------------------------------------
(* Reads *)

\* part_000: SELECT ... FROM products ORDER BY code
listRootsP0 == products

\* products p LEFT JOIN bom_items b ON b.child_id = p.id: a row for every
\* matching pair, and a row with b's columns NULL (<<>>) for a product that
\* matches nothing.
LeftJoinOnChild ==
  {[p |-> pair[1], child_id |-> <<pair[2].child>>] :
     pair \in {x \in products \X bom_items : x[2].child = x[1]}}
  \cup {[p |-> q, child_id |-> <<>>] :
          q \in {x \in products : \A b \in bom_items : b.child # x}}

\* index.js (A): ... LEFT JOIN ... WHERE b.child_id IS NULL
listRootsA == {r.p : r \in {x \in LeftJoinOnChild : x.child_id = <<>>}}

\* A version of listRootsB that looks at the parent column.
listRootsB_ByParent == {p \in products : ~ \E b \in bom_items : b.parent = p}

\* index.js (B): WHERE NOT EXISTS (bom_items b WHERE b.child_product_id = p.id)
listRootsB == {p \in products : ~ \E b \in bom_items : b.child = p}

\* part_001: WHERE NOT EXISTS (bom_items b WHERE b.child_product_id = p.id)
listRootsP1 == {p \in products : ~ \E b \in bom_items : b.child = p}

RECURSIVE SetToSeq(_)
\* The ids of a result set, in some order: here that of the ids
SetToSeq(S) ==
  IF S = {} THEN <<>>
  ELSE LET m == CHOOSE x \in S : \A y \in S : x <= y
       IN <<m>> \o SetToSeq(S \ {m})

\* ORDER BY p.code / ORDER BY code
OrderByCode(S) ==
  SortSeq(SetToSeq(S),
          LAMBDA a, b : CodeRank(attrs[a].code) < CodeRank(attrs[b].code))

\* ORDER BY p.id
OrderById(S) == SortSeq(SetToSeq(S), LAMBDA a, b : a < b)

listRoots ==
  CASE variant = "A" -> listRootsA
    [] variant = "B" -> listRootsB
    [] variant = "P0" -> listRootsP0
    [] variant = "P1" -> listRootsP1

\* The rows of GET /api/products/root in the order of its ORDER BY: p.id on
\* the second server of src/index.js, the code elsewhere
listRootsInOrder ==
  IF variant = "B" THEN OrderById(listRoots) ELSE OrderByCode(listRoots)

\* bom_items b JOIN products p ON p.id = b.child WHERE b.parent = id
listChildren(id) ==
  {b \in bom_items : b.parent = id /\ b.child \in products}

----------------------------------------------------------------------------
(* Storage: what one SQL statement does to the tables *)

\* A version of BomWithout that deletes the rows below id only.
BomWithout_ParentOnly(id) == {b \in bom_items : b.parent # id}

\* DELETE FROM bom_items WHERE parent = id OR child = id
BomWithout(id) == {b \in bom_items : b.parent # id /\ b.child # id}

\* DELETE FROM cart_items WHERE product_id = id
CartWithout(id) == SelectSeq(cart_items, LAMBDA l : l.product_id # id)

\* The rows that still reference product id when its row is deleted.  The
\* cart of part_001 is no table and references nothing for the store.
Referenced(id) ==
  \/ \E b \in bom_items : b.parent = id \/ b.child = id
  \/ variant # "P1" /\ \E i \in 1..Len(cart_items) : cart_items[i].product_id = id

\* DELETE FROM products WHERE id = $1 is refused by a declared foreign key
DeleteRefused(id) == fk /\ id \in products /\ Referenced(id)

\* INSERT INTO bom_items is refused by a declared foreign key.  visible: the
\* product rows the inserting session can see.
BomInsertRefused(parent, child, visible) ==
  fk /\ ~(parent \in visible /\ child \in visible)

\* INSERT INTO cart_items is refused by a declared foreign key
CartInsertRefused(pid) == fk /\ pid \notin products

BomRow(id, parent, child, quantity) ==
  [id |-> id, parent |-> parent, child |-> child, quantity |-> quantity]

CartRow(id, pid, quantity) ==
  [id |-> id, product_id |-> pid, quantity |-> quantity]

\* INSERT INTO products ... RETURNING: the row gets the next serial id
InsertProduct(row) ==
  /\ nextProductId <= MaxProducts
  /\ products' = products \cup {nextProductId}
  /\ attrs' = [attrs EXCEPT ![nextProductId] = row]
  /\ nextProductId' = nextProductId + 1

\* A version of InsertBom that stores the column default, not the quantity.
InsertBom_DefaultQuantity(parent, child, quantity) ==
  /\ nextBomId <= MaxBom
  /\ bom_items' = bom_items \cup {BomRow(nextBomId, parent, child, 1)}
  /\ nextBomId' = nextBomId + 1

\* INSERT INTO bom_items (parent, child, quantity)
InsertBom(parent, child, quantity) ==
  /\ nextBomId <= MaxBom
  /\ bom_items' = bom_items \cup {BomRow(nextBomId, parent, child, quantity)}
  /\ nextBomId' = nextBomId + 1

\* The item part_001 keeps in its cart: the line with the code (and name)
\* the product had when the line was added
CartItem(id, pid, quantity, code) ==
  [id |-> id, product_id |-> pid, quantity |-> quantity, code |-> code]

\* INSERT INTO cart_items (product_id, quantity)
InsertCart(pid, quantity) ==
  /\ nextCartId <= MaxCart
  /\ cart_items' = Append(cart_items, CartRow(nextCartId, pid, quantity))
  /\ nextCartId' = nextCartId + 1

----------------------------------------------------------------------------
(* Version A: src/index.js, first server *)

\* POST /api/products
A_PostProducts(s, F) ==
  /\ variant = "A" /\ Free(s)
  /\ \E cred \in Creds :
       IF requireAdminA(cred) # 0
         THEN /\ Respond(s, ReqBy(cred, "createItem", 0, 0, 0), requireAdminA(cred), FALSE)
              /\ UNCHANGED <<catalog, attrs>>
       ELSE \E body \in F, ok \in BOOLEAN :
         IF ~ok
           THEN /\ Respond(s, ReqBy(cred, "createItem", 0, 0, 0), 500, TRUE)
                /\ UNCHANGED <<catalog, attrs>>
         ELSE /\ InsertProduct(RowOf(body))
              /\ Respond(s, [ReqBy(cred, "createItem", 0, 0, 0) EXCEPT
                               !.newId = nextProductId], 201, FALSE)
              /\ UNCHANGED <<bom_items, nextBomId>>
  /\ UNCHANGED <<schema, orderVars, cartVars, uploads>>

\* PUT /api/products/:id
A_PutProducts(s, F) ==
  /\ variant = "A" /\ Free(s)
  /\ \E cred \in Creds :
       IF requireAdminA(cred) # 0
         THEN /\ Respond(s, ReqBy(cred, "updateItem", 0, 0, 0), requireAdminA(cred), FALSE)
              /\ UNCHANGED attrs
       ELSE \E id \in IdInputs :
         IF id = <<>>
           THEN /\ Respond(s, ReqBy(cred, "updateItem", 0, 0, 0), 500, FALSE)
                /\ UNCHANGED attrs
         ELSE \E body \in F, ok \in BOOLEAN :
           IF ~ok
             THEN /\ Respond(s, ReqBy(cred, "updateItem", 0, 0, 0), 500, TRUE)
                  /\ UNCHANGED attrs
           ELSE IF id[1] \notin products
             THEN /\ Respond(s, ReqBy(cred, "updateItem", id[1], 0, 0), 404, FALSE)
                  /\ UNCHANGED attrs
           ELSE /\ attrs' = [attrs EXCEPT ![id[1]] = SetRow(@, body)]
                /\ Respond(s, ReqBy(cred, "updateItem", id[1], 0, 0), 200, FALSE)
  /\ UNCHANGED <<schema, orderVars, catalog, cartVars, uploads>>

\* DELETE /api/products/:id, first statement: the BOM rows
A_DeleteProduct(s) ==
  /\ variant = "A" /\ Free(s)
  /\ \E cred \in Creds :
       IF requireAdminA(cred) # 0
         THEN /\ Respond(s, ReqBy(cred, "deleteItem", 0, 0, 0), requireAdminA(cred), FALSE)
              /\ UNCHANGED bom_items
       ELSE \E id \in IdInputs :
         IF id = <<>>
           THEN /\ Respond(s, ReqBy(cred, "deleteItem", 0, 0, 0), 500, FALSE)
                /\ UNCHANGED bom_items
         ELSE \E ok \in BOOLEAN :
           IF ~ok
             THEN /\ Respond(s, ReqBy(cred, "deleteItem", 0, 0, 0), 500, TRUE)
                  /\ UNCHANGED bom_items
           ELSE /\ bom_items' = BomWithout(id[1])
                /\ Await(s, [ReqBy(cred, "deleteItem", id[1], 0, 0) EXCEPT
                               !.dirty = (BomWithout(id[1]) # bom_items)],
                         "delCart")
  /\ UNCHANGED <<schema, orderVars, products, nextProductId, nextBomId, cartVars, files>>

\* DELETE /api/products/:id, second statement: the cart rows
A_DeleteProduct_Cart(s) ==
  /\ variant = "A" /\ reqs[s].op = "deleteItem" /\ reqs[s].pc = "delCart"
  /\ \E ok \in BOOLEAN :
       IF ~ok
         THEN Respond(s, reqs[s], 500, TRUE) /\ UNCHANGED cart_items
       ELSE /\ cart_items' = CartWithout(reqs[s].id)
            /\ Await(s, [reqs[s] EXCEPT
                           !.dirty = (@ \/ CartWithout(reqs[s].id) # cart_items)],
                     "delProduct")
  /\ UNCHANGED <<schema, orderVars, catalog, nextCartId, files>>

\* DELETE /api/products/:id, last statement: the product row
A_DeleteProduct_Row(s) ==
  /\ variant = "A" /\ reqs[s].op = "deleteItem" /\ reqs[s].pc = "delProduct"
  /\ \E ok \in BOOLEAN :
       IF ~ok
         THEN Respond(s, reqs[s], 500, TRUE) /\ UNCHANGED products
       ELSE IF DeleteRefused(reqs[s].id)
         THEN Respond(s, reqs[s], 500, FALSE) /\ UNCHANGED products
       ELSE IF reqs[s].id \notin products
         THEN Respond(s, reqs[s], 404, FALSE) /\ UNCHANGED products
       ELSE /\ products' = products \ {reqs[s].id}
            /\ Respond(s, reqs[s], 200, FALSE)
  /\ UNCHANGED <<schema, orderVars, nextProductId, bom_items, nextBomId, cartVars, files>>

\* POST /api/cart/add: INSERT ... ON CONFLICT (product_id) DO UPDATE.
\* Q: the quantities the requests carry.
A_CartAdd(s, Q) ==
  /\ variant = "A" /\ Free(s)
  /\ \E productId \in IdInputs, quantity \in Q :
       LET q == IF quantity = <<>> \/ quantity[1] = 0 THEN 1 ELSE quantity[1]
           pid == IF productId = <<>> THEN 0 ELSE productId[1]
           r == Req("addLine", pid, 0, q)
           hit == {i \in 1..Len(cart_items) : cart_items[i].product_id = pid}
       IN
       IF productId = <<>>
         THEN Respond(s, r, 400, FALSE) /\ UNCHANGED cartVars
       ELSE \E ok \in BOOLEAN :
         IF ~ok
           THEN /\ Respond(s, Req("addLine", 0, 0, 0), 500, TRUE)
                /\ UNCHANGED cartVars
         ELSE IF hit # {}
           THEN /\ \A i \in hit : cart_items[i].quantity + q \in LineQtys
                /\ cart_items' = [i \in 1..Len(cart_items) |->
                                    IF i \in hit
                                      THEN [cart_items[i] EXCEPT !.quantity = @ + q]
                                      ELSE cart_items[i]]
                /\ Respond(s, r, 200, FALSE)
                /\ UNCHANGED nextCartId
         ELSE IF CartInsertRefused(pid)
           THEN Respond(s, r, 500, FALSE) /\ UNCHANGED cartVars
         ELSE InsertCart(pid, q) /\ Respond(s, r, 200, FALSE)
  /\ UNCHANGED <<schema, orderVars, catalog, files>>

\* POST /api/cart/clear: DELETE FROM cart_items
A_CartClear(s) ==
  /\ variant = "A" /\ Free(s)
  /\ LET r == [Req("clear", 0, 0, 0) EXCEPT !.given = <<"clear">>] IN
     \E ok \in BOOLEAN :
       IF ~ok
         THEN Respond(s, r, 500, TRUE) /\ UNCHANGED cart_items
       ELSE cart_items' = <<>> /\ Respond(s, r, 200, FALSE)
  /\ UNCHANGED <<schema, orderVars, catalog, nextCartId, files>>

----------------------------------------------------------------------------
(* Version B: src/index.js, second server *)

\* POST /api/products
B_PostProducts(s, F) ==
  /\ variant = "B" /\ Free(s)
  /\ \E cred \in Creds :
       IF requireAdminB(cred) # 0
         THEN /\ Respond(s, ReqBy(cred, "createItem", 0, 0, 0), requireAdminB(cred), FALSE)
              /\ UNCHANGED <<catalog, attrs>>
       ELSE \E body \in F :
         IF Falsy(body.code) \/ Falsy(body.type)
           THEN /\ Respond(s, ReqBy(cred, "createItem", 0, 0, 0), 400, FALSE)
                /\ UNCHANGED <<catalog, attrs>>
         ELSE \E ok \in BOOLEAN :
           IF ~ok
             THEN /\ Respond(s, ReqBy(cred, "createItem", 0, 0, 0), 500, TRUE)
                  /\ UNCHANGED <<catalog, attrs>>
           ELSE /\ InsertProduct(RowOf(body))
                /\ Respond(s, [ReqBy(cred, "createItem", 0, 0, 0) EXCEPT
                                 !.newId = nextProductId], 201, FALSE)
                /\ UNCHANGED <<bom_items, nextBomId>>
  /\ UNCHANGED <<schema, orderVars, cartVars, uploads>>

\* PUT /api/products/:id
B_PutProducts(s, F) ==
  /\ variant = "B" /\ Free(s)
  /\ \E cred \in Creds :
       IF requireAdminB(cred) # 0
         THEN /\ Respond(s, ReqBy(cred, "updateItem", 0, 0, 0), requireAdminB(cred), FALSE)
              /\ UNCHANGED attrs
       ELSE \E id \in IdInputs :
         IF id = <<>>
           THEN /\ Respond(s, ReqBy(cred, "updateItem", 0, 0, 0), 400, FALSE)
                /\ UNCHANGED attrs
         ELSE \E body \in F, ok \in BOOLEAN :
           IF ~ok
             THEN /\ Respond(s, ReqBy(cred, "updateItem", 0, 0, 0), 500, TRUE)
                  /\ UNCHANGED attrs
           ELSE IF id[1] \notin products
             THEN /\ Respond(s, ReqBy(cred, "updateItem", id[1], 0, 0), 404, FALSE)
                  /\ UNCHANGED attrs
           ELSE /\ attrs' = [attrs EXCEPT ![id[1]] = CoalesceRow(@, body)]
                /\ Respond(s, ReqBy(cred, "updateItem", id[1], 0, 0), 200, FALSE)
  /\ UNCHANGED <<schema, orderVars, catalog, cartVars, uploads>>

\* DELETE /api/products/:id, first statement: the BOM rows
B_DeleteProduct(s) ==
  /\ variant = "B" /\ Free(s)
  /\ \E cred \in Creds :
       IF requireAdminB(cred) # 0
         THEN /\ Respond(s, ReqBy(cred, "deleteItem", 0, 0, 0), requireAdminB(cred), FALSE)
              /\ UNCHANGED bom_items
       ELSE \E id \in IdInputs :
         IF id = <<>>
           THEN /\ Respond(s, ReqBy(cred, "deleteItem", 0, 0, 0), 400, FALSE)
                /\ UNCHANGED bom_items
         ELSE \E ok \in BOOLEAN :
           IF ~ok
             THEN /\ Respond(s, ReqBy(cred, "deleteItem", 0, 0, 0), 500, TRUE)
                  /\ UNCHANGED bom_items
           ELSE /\ bom_items' = BomWithout(id[1])
                /\ Await(s, [ReqBy(cred, "deleteItem", id[1], 0, 0) EXCEPT
                               !.dirty = (BomWithout(id[1]) # bom_items)],
                         "delCart")
  /\ UNCHANGED <<schema, orderVars, products, nextProductId, nextBomId, cartVars, files>>

\* DELETE /api/products/:id, second statement: the cart rows
B_DeleteProduct_Cart(s) ==
  /\ variant = "B" /\ reqs[s].op = "deleteItem" /\ reqs[s].pc = "delCart"
  /\ \E ok \in BOOLEAN :
       IF ~ok
         THEN Respond(s, reqs[s], 500, TRUE) /\ UNCHANGED cart_items
       ELSE /\ cart_items' = CartWithout(reqs[s].id)
            /\ Await(s, [reqs[s] EXCEPT
                           !.dirty = (@ \/ CartWithout(reqs[s].id) # cart_items)],
                     "delProduct")
  /\ UNCHANGED <<schema, orderVars, catalog, nextCartId, files>>

\* DELETE /api/products/:id, last statement: the product row
B_DeleteProduct_Row(s) ==
  /\ variant = "B" /\ reqs[s].op = "deleteItem" /\ reqs[s].pc = "delProduct"
  /\ \E ok \in BOOLEAN :
       IF ~ok
         THEN Respond(s, reqs[s], 500, TRUE) /\ UNCHANGED products
       ELSE IF DeleteRefused(reqs[s].id)
         THEN Respond(s, reqs[s], 500, FALSE) /\ UNCHANGED products
       ELSE IF reqs[s].id \notin products
         THEN Respond(s, reqs[s], 404, FALSE) /\ UNCHANGED products
       ELSE /\ products' = products \ {reqs[s].id}
            /\ Respond(s, reqs[s], 200, FALSE)
  /\ UNCHANGED <<schema, orderVars, nextProductId, bom_items, nextBomId, cartVars, files>>

\* POST /api/bom { parentId, childId, quantity }.
\* Q: the quantities the requests carry.
B_PostBom(s, Q) ==
  /\ variant = "B" /\ Free(s)
  /\ \E cred \in Creds :
       IF requireAdminB(cred) # 0
         THEN /\ Respond(s, ReqBy(cred, "addEdge", 0, 0, 0), requireAdminB(cred), FALSE)
              /\ UNCHANGED <<bom_items, nextBomId>>
       ELSE \E parentId \in IdInputs, childId \in IdInputs :
         IF parentId = <<>> \/ childId = <<>>
           THEN /\ Respond(s, ReqBy(cred, "addEdge", 0, 0, 0), 400, FALSE)
                /\ UNCHANGED <<bom_items, nextBomId>>
         ELSE \E ok \in BOOLEAN :
           IF ~ok
             THEN /\ Respond(s, ReqBy(cred, "addEdge", 0, 0, 0), 500, TRUE)
                  /\ UNCHANGED <<bom_items, nextBomId>>
           ELSE \E quantity \in Q :
             LET q == IF quantity = <<>> THEN 1 ELSE quantity[1]
                 r == ReqBy(cred, "addEdge", parentId[1], childId[1], q)
             IN
             IF BomInsertRefused(r.id, r.child, products)
               THEN Respond(s, r, 500, FALSE) /\ UNCHANGED <<bom_items, nextBomId>>
             ELSE /\ InsertBom(r.id, r.child, q)
                  /\ Respond(s, [r EXCEPT !.edge = nextBomId], 201, FALSE)
  /\ UNCHANGED <<schema, orderVars, products, nextProductId, cartVars, files>>

\* DELETE /api/bom/:id
B_DeleteBom(s) ==
  /\ variant = "B" /\ Free(s)
  /\ \E cred \in Creds :
       IF requireAdminB(cred) # 0
         THEN /\ Respond(s, ReqBy(cred, "deleteEdge", 0, 0, 0), requireAdminB(cred), FALSE)
              /\ UNCHANGED bom_items
       ELSE \E id \in BomIdInputs :
         IF id = <<>>
           THEN /\ Respond(s, ReqBy(cred, "deleteEdge", 0, 0, 0), 400, FALSE)
                /\ UNCHANGED bom_items
         ELSE \E ok \in BOOLEAN :
           IF ~ok
             THEN /\ Respond(s, ReqBy(cred, "deleteEdge", 0, 0, 0), 500, TRUE)
                  /\ UNCHANGED bom_items
           ELSE IF ~ \E b \in bom_items : b.id = id[1]
             THEN /\ Respond(s, ReqBy(cred, "deleteEdge", id[1], 0, 0), 404, FALSE)
                  /\ UNCHANGED bom_items
           ELSE /\ bom_items' = {b \in bom_items : b.id # id[1]}
                /\ Respond(s, ReqBy(cred, "deleteEdge", id[1], 0, 0), 200, FALSE)
  /\ UNCHANGED <<schema, orderVars, products, nextProductId, nextBomId, cartVars, files>>

\* POST /api/cart and its alias POST /api/cart/add.
\* Q: the quantities the requests carry.
B_CartAdd(s, Q) ==
  /\ variant = "B" /\ Free(s)
  /\ \E productId \in IdInputs, quantity \in Q :
       LET q == IF quantity = <<>> THEN 1 ELSE quantity[1]
           pid == IF productId = <<>> THEN 0 ELSE productId[1]
           r == Req("addLine", pid, 0, q)
       IN
       IF productId = <<>>
         THEN Respond(s, r, 400, FALSE) /\ UNCHANGED cartVars
       ELSE \E ok \in BOOLEAN :
         IF ~ok
           THEN /\ Respond(s, Req("addLine", 0, 0, 0), 500, TRUE)
                /\ UNCHANGED cartVars
         ELSE IF CartInsertRefused(pid)
           THEN Respond(s, r, 500, FALSE) /\ UNCHANGED cartVars
         ELSE InsertCart(pid, q) /\ Respond(s, r, 201, FALSE)
  /\ UNCHANGED <<schema, orderVars, catalog, files>>

\* app.delete('/api/cart/:id'), app.delete('/api/cart'),
\* app.delete('/api/cart/clear'), in the order they are registered
B_CartDeleteRoutes ==
  <<Route(<<":id">>, "removeLine"), Route(<<>>, "clear"),
    Route(<<"clear">>, "clear")>>

\* The answer of DELETE /api/cart/:id for the line id: rowCount decides
B_RemoveLineStatus(cart, id) ==
  IF \E i \in 1..Len(cart) : cart[i].id = id THEN 200 ELSE 404

\* DELETE FROM cart_items WHERE id = $1 / cart.filter(item => item.id !== id)
CartWithoutLine(id) == SelectSeq(cart_items, LAMBDA l : l.id # id)

\* DELETE below /api/cart: the handler Express dispatches the path to
B_CartDelete(s) ==
  /\ variant = "B" /\ Free(s)
  /\ \E path \in CartPaths :
       LET h == Dispatch(B_CartDeleteRoutes, path)
           id == IF path = <<>> THEN NaN ELSE Number(path[1])
           r == [Req(h, IF id = NaN THEN 0 ELSE id[1], 0, 0)
                   EXCEPT !.given = path]
       IN
       IF h = "removeLine"
         THEN IF id = NaN
                THEN Respond(s, r, 400, FALSE) /\ UNCHANGED cart_items
              ELSE \E ok \in BOOLEAN :
                IF ~ok
                  THEN Respond(s, r, 500, TRUE) /\ UNCHANGED cart_items
                ELSE /\ cart_items' = CartWithoutLine(id[1])
                     /\ Respond(s, r, B_RemoveLineStatus(cart_items, id[1]),
                                FALSE)
       ELSE \E ok \in BOOLEAN :
         IF ~ok
           THEN Respond(s, r, 500, TRUE) /\ UNCHANGED cart_items
         ELSE cart_items' = <<>> /\ Respond(s, r, 200, FALSE)
  /\ UNCHANGED <<schema, orderVars, catalog, nextCartId, files>>

\* POST /api/products/:id/image2d (POST /api/products/:id/model3d is the same
\* handler for the column model3d_url): requireAdmin, then upload.single
\* writes the file to the uploads directory, then the handler.  No path of
\* the handler removes the file.  The URL stored is the file's place in the
\* directory.
B_PostImage2d(s) ==
  /\ variant = "B" /\ Free(s)
  /\ \E cred \in Creds :
       IF requireAdminB(cred) # 0
         THEN /\ Respond(s, [ReqBy(cred, "admit", 0, 0, 0) EXCEPT !.seen = Len(uploads)],
                         requireAdminB(cred), FALSE)
              /\ UNCHANGED files
       ELSE \E id \in IdInputs, file \in FileInputs :
         LET r == [ReqBy(cred, "admit", IF id = <<>> THEN 0 ELSE id[1], 0, 0)
                     EXCEPT !.size = IF file = <<>> THEN 0 ELSE file[1],
                            !.given = <<"image">>,
                            !.seen = Len(uploads)]
         IN
         /\ file # <<>> => Len(uploads) < MaxUploads
         /\ uploads' = IF file = <<>> THEN uploads ELSE Append(uploads, file[1])
         /\ IF id = <<>> \/ file = <<>>
              THEN Respond(s, r, 400, FALSE) /\ UNCHANGED attrs
            ELSE \E ok \in BOOLEAN :
              IF ~ok
                THEN Respond(s, r, 500, TRUE) /\ UNCHANGED attrs
              ELSE IF id[1] \notin products
                THEN Respond(s, r, 404, FALSE) /\ UNCHANGED attrs
              ELSE /\ attrs' = [attrs EXCEPT
                                  ![id[1]].image2d_url = <<Len(uploads')>>]
                   /\ Respond(s, r, 200, FALSE)
  /\ UNCHANGED <<schema, orderVars, catalog, cartVars>>

----------------------------------------------------------------------------
(* Version B: orders.  POST /api/orders runs one transaction on a client   *)
(* of its own: the rows it inserts and deletes are the transaction's own   *)
(* until COMMIT, each statement sees the rows committed when it starts.    *)

\* Request bodies of POST /api/orders: the three fields the handler tests
CustomerBodies ==
  [customer_name : {Absent, <<<<"n">>>>},
   customer_email : {Absent, <<<<"e">>>>},
   customer_phone : {Absent, <<<<"p">>>>}]

\* SELECT product_id, quantity FROM cart_items ORDER BY id
CartSnapshot(cart) ==
  [i \in 1..Len(cart) |->
     [product_id |-> cart[i].product_id, quantity |-> cart[i].quantity]]

OrderItem(orderId, it) ==
  [order_id |-> orderId, product_id |-> it.product_id,
   quantity |-> it.quantity]

\* A version of OrderItemsOf that stops after the first line of the cart.
OrderItemsOf_FirstOnly(orderId, items) ==
  [i \in 1..(IF Len(items) = 0 THEN 0 ELSE 1) |-> OrderItem(orderId, items[i])]

\* for (const item of cartItems) INSERT INTO order_items (...)
OrderItemsOf(orderId, items) ==
  [i \in 1..Len(items) |-> OrderItem(orderId, items[i])]

\* order_items.product_id is a foreign key to products
OrderItemRefused(items) ==
  \E i \in 1..Len(items) : items[i].product_id \notin products

\* DELETE FROM cart_items: the ids of the lines the statement removes
CartLineIds(cart) == {cart[i].id : i \in 1..Len(cart)}

CartWithoutLines(ids) == SelectSeq(cart_items, LAMBDA l : l.id \notin ids)

\* The rows of order_items that belong to the order
ItemsOfOrder(rows, orderId) == SelectSeq(rows, LAMBDA r : r.order_id = orderId)

\* catch (err) { await client.query('ROLLBACK'); ...; res.status(500) }
\* finally { client.release() }.  When the ROLLBACK itself is rejected the
\* exception leaves the catch block before the response is written.
B_PostOrders_Catch(s, r, fault) ==
  \E rolled \in BOOLEAN :
    IF rolled
      THEN Respond(s, [r EXCEPT !.client = "released"], 500, fault)
      ELSE Drop(s, [r EXCEPT !.client = "released", !.fault = TRUE])

\* The orders.id serials that requests past their SELECT will still draw
OrdersInFlight ==
  Cardinality({u \in Slots : reqs[u].op = "placeOrder" /\ reqs[u].pc = "insert"})

\* POST /api/orders: validation, pool.connect() (outside the try), BEGIN and
\* the SELECT of the cart
B_PostOrders(s) ==
  /\ variant = "B" /\ Free(s)
  /\ nextOrderId + OrdersInFlight <= MaxOrders
  /\ \E body \in CustomerBodies :
       LET r == Req("placeOrder", 0, 0, 0) IN
       IF Falsy(body.customer_name)
            \/ (Falsy(body.customer_email) /\ Falsy(body.customer_phone))
         THEN Respond(s, r, 400, FALSE)
       ELSE \E connected \in BOOLEAN :
         IF ~connected
           THEN Drop(s, [r EXCEPT !.fault = TRUE])
         ELSE \E ok \in BOOLEAN :
           LET c == [r EXCEPT !.client = "held"] IN
           IF ~ok
             THEN B_PostOrders_Catch(s, c, TRUE)
           ELSE IF cart_items = <<>>
             THEN \E rolled \in BOOLEAN :
                    IF rolled
                      THEN Respond(s, [c EXCEPT !.client = "released"], 400, FALSE)
                      ELSE B_PostOrders_Catch(s, c, TRUE)
           ELSE Await(s, [c EXCEPT !.items = CartSnapshot(cart_items)], "insert")
  /\ UNCHANGED <<schema, orderVars, catalog, cartVars, files>>

\* POST /api/orders: INSERT INTO orders ... RETURNING and the loop of
\* INSERT INTO order_items.  The serial drawn is not given back by ROLLBACK.
B_PostOrders_Insert(s) ==
  /\ variant = "B" /\ reqs[s].op = "placeOrder" /\ reqs[s].pc = "insert"
  /\ \E ok \in BOOLEAN :
       IF ~ok
         THEN B_PostOrders_Catch(s, reqs[s], TRUE) /\ UNCHANGED nextOrderId
       ELSE /\ nextOrderId' = nextOrderId + 1
            /\ IF OrderItemRefused(reqs[s].items)
                 THEN B_PostOrders_Catch(s, reqs[s], FALSE)
                 ELSE Await(s, [reqs[s] EXCEPT !.newId = nextOrderId], "wipe")
  /\ UNCHANGED <<schema, orders, order_items, catalog, cartVars, files>>

\* POST /api/orders: DELETE FROM cart_items, every line committed by now
B_PostOrders_Wipe(s) ==
  /\ variant = "B" /\ reqs[s].op = "placeOrder" /\ reqs[s].pc = "wipe"
  /\ \E ok \in BOOLEAN :
       IF ~ok
         THEN B_PostOrders_Catch(s, reqs[s], TRUE)
       ELSE Await(s, [reqs[s] EXCEPT !.rows = CartLineIds(cart_items)], "commit")
  /\ UNCHANGED <<schema, orderVars, catalog, cartVars, files>>

\* POST /api/orders: COMMIT publishes the order, its items and the deletion
\* of the cart lines together; then the 201
B_PostOrders_Commit(s) ==
  /\ variant = "B" /\ reqs[s].op = "placeOrder" /\ reqs[s].pc = "commit"
  /\ \E ok \in BOOLEAN :
       IF ~ok
         THEN /\ B_PostOrders_Catch(s, reqs[s], TRUE)
              /\ UNCHANGED <<orders, order_items, cart_items>>
       ELSE /\ orders' = orders \cup {reqs[s].newId}
            /\ order_items' =
                 order_items \o OrderItemsOf(reqs[s].newId, reqs[s].items)
            /\ cart_items' = CartWithoutLines(reqs[s].rows)
            /\ Respond(s, [reqs[s] EXCEPT !.client = "released"], 201, FALSE)
  /\ UNCHANGED <<schema, nextOrderId, catalog, nextCartId, files>>

----------------------------------------------------------------------------
(* Version P0: src/unnamed/part_000 *)

\* catch (e) { await client.query('ROLLBACK'); ...; res.status(500) }
\* finally { client.release() }.  When the ROLLBACK itself is rejected the
\* exception leaves the catch block before the response is written.
P0_PostProducts_Catch(s, r, fault) ==
  \E rolled \in BOOLEAN :
    IF rolled
      THEN Respond(s, [r EXCEPT !.client = "released"], 500, fault)
      ELSE Drop(s, [r EXCEPT !.client = "released", !.fault = TRUE])

\* POST /api/products: pool.connect (outside the try), BEGIN and the INSERT
\* INTO products of the transaction.  The row is the transaction's own until
\* COMMIT; the serial it drew is not given back by a ROLLBACK.
P0_PostProducts(s, F) ==
  /\ variant = "P0" /\ Free(s)
  /\ \E cred \in Creds :
       IF authRequired(cred) # 0
         THEN /\ Respond(s, ReqBy(cred, "createItem", 0, 0, 0), authRequired(cred), FALSE)
              /\ UNCHANGED <<nextProductId, attrs>>
       ELSE IF cred # "admin"
         THEN /\ Respond(s, ReqBy(cred, "createItem", 0, 0, 0), 403, FALSE)
              /\ UNCHANGED <<nextProductId, attrs>>
       ELSE \E body \in F :
         IF Falsy(body.code) \/ Falsy(body.type)
           THEN /\ Respond(s, ReqBy(cred, "createItem", 0, 0, 0), 400, FALSE)
                /\ UNCHANGED <<nextProductId, attrs>>
         ELSE \E connected \in BOOLEAN :
           IF ~connected
             THEN /\ Drop(s, [ReqBy(cred, "createItem", 0, 0, 0) EXCEPT
                                !.fault = TRUE])
                  /\ UNCHANGED <<nextProductId, attrs>>
           ELSE \E parentId \in IdInputs, quantityInParent \in QtyInputs,
                   ok \in BOOLEAN :
             LET qty == IF quantityInParent # <<>> /\ quantityInParent[1] > 0
                          THEN quantityInParent[1] ELSE 1
                 c == [ReqBy(cred, "createItem", 0, 0, 0) EXCEPT
                         !.client = "held"]
                 r == IF parentId = <<>> THEN c
                      ELSE [c EXCEPT !.id = parentId[1], !.qty = qty,
                                     !.given = quantityInParent]
             IN
             IF ~ok
               THEN /\ P0_PostProducts_Catch(s, c, TRUE)
                    /\ UNCHANGED <<nextProductId, attrs>>
             ELSE /\ nextProductId <= MaxProducts
                  /\ nextProductId' = nextProductId + 1
                  /\ attrs' = [attrs EXCEPT ![nextProductId] = RowOf(body)]
                  /\ Await(s, [r EXCEPT !.newId = nextProductId],
                           IF parentId # <<>> THEN "link" ELSE "commit")
  /\ UNCHANGED <<schema, orderVars, products, bom_items, nextBomId, cartVars, uploads>>

\* POST /api/products, if (parentId): INSERT INTO bom_items in the
\* transaction, which sees the committed products and its own new row.
P0_PostProducts_Link(s) ==
  /\ variant = "P0" /\ reqs[s].op = "createItem" /\ reqs[s].pc = "link"
  /\ \E ok \in BOOLEAN :
       IF ~ok
         THEN P0_PostProducts_Catch(s, reqs[s], TRUE) /\ UNCHANGED nextBomId
       ELSE IF BomInsertRefused(reqs[s].id, reqs[s].newId,
                                products \cup {reqs[s].newId})
         THEN P0_PostProducts_Catch(s, reqs[s], FALSE) /\ UNCHANGED nextBomId
       ELSE /\ nextBomId <= MaxBom
            /\ nextBomId' = nextBomId + 1
            /\ Await(s, [reqs[s] EXCEPT !.edge = nextBomId], "commit")
  /\ UNCHANGED <<schema, orderVars, products, nextProductId, bom_items, cartVars, files>>

\* A version of P0_PostProducts_Commit that publishes the product only.
P0_PostProducts_Commit_NoEdge(s) ==
  /\ variant = "P0" /\ reqs[s].op = "createItem" /\ reqs[s].pc = "commit"
  /\ products' = products \cup {reqs[s].newId}
  /\ Respond(s, [reqs[s] EXCEPT !.client = "released"], 201, FALSE)
  /\ UNCHANGED <<schema, orderVars, nextProductId, bom_items, nextBomId, cartVars, files>>

\* POST /api/products: COMMIT publishes the transaction's rows together
P0_PostProducts_Commit(s) ==
  /\ variant = "P0" /\ reqs[s].op = "createItem" /\ reqs[s].pc = "commit"
  /\ \E ok \in BOOLEAN :
       IF ~ok
         THEN /\ P0_PostProducts_Catch(s, reqs[s], TRUE)
              /\ UNCHANGED <<products, bom_items>>
       ELSE /\ products' = products \cup {reqs[s].newId}
            /\ bom_items' =
                 IF reqs[s].edge = 0 THEN bom_items
                 ELSE bom_items \cup {BomRow(reqs[s].edge, reqs[s].id,
                                              reqs[s].newId, reqs[s].qty)}
            /\ Respond(s, [reqs[s] EXCEPT !.client = "released"], 201, FALSE)
  /\ UNCHANGED <<schema, orderVars, nextProductId, nextBomId, cartVars, files>>

\* PUT /api/products/:id
P0_PutProducts(s, F) ==
  /\ variant = "P0" /\ Free(s)
  /\ \E cred \in Creds :
       IF authRequired(cred) # 0
         THEN /\ Respond(s, ReqBy(cred, "updateItem", 0, 0, 0), authRequired(cred), FALSE)
              /\ UNCHANGED attrs
       ELSE IF cred # "admin"
         THEN /\ Respond(s, ReqBy(cred, "updateItem", 0, 0, 0), 403, FALSE)
              /\ UNCHANGED attrs
       ELSE \E id \in IdInputs :
         IF id = <<>>
           THEN /\ Respond(s, ReqBy(cred, "updateItem", 0, 0, 0), 500, FALSE)
                /\ UNCHANGED attrs
         ELSE \E body \in F, ok \in BOOLEAN :
           IF ~ok
             THEN /\ Respond(s, ReqBy(cred, "updateItem", 0, 0, 0), 500, TRUE)
                  /\ UNCHANGED attrs
           ELSE IF id[1] \notin products
             THEN /\ Respond(s, ReqBy(cred, "updateItem", id[1], 0, 0), 404, FALSE)
                  /\ UNCHANGED attrs
           ELSE /\ attrs' = [attrs EXCEPT ![id[1]] = SetRow(@, body)]
                /\ Respond(s, ReqBy(cred, "updateItem", id[1], 0, 0), 200, FALSE)
  /\ UNCHANGED <<schema, orderVars, catalog, cartVars, uploads>>

\* DELETE /api/bom/:id
P0_DeleteBom(s) ==
  /\ variant = "P0" /\ Free(s)
  /\ \E cred \in Creds :
       IF authRequired(cred) # 0
         THEN /\ Respond(s, ReqBy(cred, "deleteEdge", 0, 0, 0), authRequired(cred), FALSE)
              /\ UNCHANGED bom_items
       ELSE IF cred # "admin"
         THEN /\ Respond(s, ReqBy(cred, "deleteEdge", 0, 0, 0), 403, FALSE)
              /\ UNCHANGED bom_items
       ELSE \E id \in BomIdInputs :
         IF id = <<>>
           THEN /\ Respond(s, ReqBy(cred, "deleteEdge", 0, 0, 0), 500, FALSE)
                /\ UNCHANGED bom_items
         ELSE \E ok \in BOOLEAN :
           IF ~ok
             THEN /\ Respond(s, ReqBy(cred, "deleteEdge", 0, 0, 0), 500, TRUE)
                  /\ UNCHANGED bom_items
           ELSE /\ bom_items' = {b \in bom_items : b.id # id[1]}
                /\ Respond(s, ReqBy(cred, "deleteEdge", id[1], 0, 0), 200, FALSE)
  /\ UNCHANGED <<schema, orderVars, products, nextProductId, nextBomId, cartVars, files>>

\* POST /api/cart/add: the SELECT that looks for a line of the product.
\* Q: the quantities the requests carry.
P0_CartAdd(s, Q) ==
  /\ variant = "P0" /\ Free(s)
  /\ \E productId \in IdInputs :
       IF productId = <<>>
         THEN Respond(s, Req("addLine", 0, 0, 0), 400, FALSE)
       ELSE \E quantity \in Q, ok \in BOOLEAN :
         LET qty == IF quantity # <<>> /\ quantity[1] > 0 THEN quantity[1] ELSE 1
             rows == {i \in 1..Len(cart_items) :
                        cart_items[i].product_id = productId[1]}
             first == CHOOSE i \in rows : \A j \in rows : i <= j
             r == Req("addLine", productId[1], 0, qty)
         IN
         IF ~ok
           THEN Respond(s, Req("addLine", 0, 0, 0), 500, TRUE)
         ELSE IF rows # {}
           THEN Await(s, [r EXCEPT !.line = cart_items[first].id,
                                   !.seen = cart_items[first].quantity],
                      "write")
         ELSE Await(s, r, "write")
  /\ UNCHANGED <<schema, orderVars, catalog, cartVars, files>>

\* POST /api/cart/add: the UPDATE of the line found, or the INSERT
P0_CartAdd_Write(s) ==
  /\ variant = "P0" /\ reqs[s].op = "addLine" /\ reqs[s].pc = "write"
  /\ \E ok \in BOOLEAN :
       IF ~ok
         THEN Respond(s, reqs[s], 500, TRUE) /\ UNCHANGED cartVars
       ELSE IF reqs[s].line # 0
         THEN /\ reqs[s].seen + reqs[s].qty <= MaxLineQty
              /\ cart_items' = [i \in 1..Len(cart_items) |->
                                  IF cart_items[i].id = reqs[s].line
                                    THEN [cart_items[i] EXCEPT
                                            !.quantity = reqs[s].seen + reqs[s].qty]
                                    ELSE cart_items[i]]
              /\ Respond(s, reqs[s], 200, FALSE)
              /\ UNCHANGED nextCartId
       ELSE IF CartInsertRefused(reqs[s].id)
         THEN Respond(s, reqs[s], 500, FALSE) /\ UNCHANGED cartVars
       ELSE InsertCart(reqs[s].id, reqs[s].qty) /\ Respond(s, reqs[s], 200, FALSE)
  /\ UNCHANGED <<schema, orderVars, catalog, files>>

\* app.delete('/api/cart/:id'), the only DELETE route below /api/cart
P0_CartDeleteRoutes == <<Route(<<":id">>, "removeLine")>>

\* The answer of DELETE /api/cart/:id for the line id: { ok: true }
P0_RemoveLineStatus(cart, id) == 200

\* DELETE below /api/cart.  The segment goes to the statement as it is: one
\* that is no number makes the statement fail.
P0_CartDelete(s) ==
  /\ variant = "P0" /\ Free(s)
  /\ \E path \in CartPaths :
       LET h == Dispatch(P0_CartDeleteRoutes, path)
           id == IF path = <<>> THEN NaN ELSE Number(path[1])
           r == [Req(h, IF id = NaN THEN 0 ELSE id[1], 0, 0)
                   EXCEPT !.given = path]
       IN
       IF h = "noRoute"
         THEN Respond(s, r, 404, FALSE) /\ UNCHANGED cart_items
       ELSE IF id = NaN
         THEN Respond(s, r, 500, FALSE) /\ UNCHANGED cart_items
       ELSE \E ok \in BOOLEAN :
         IF ~ok
           THEN Respond(s, r, 500, TRUE) /\ UNCHANGED cart_items
         ELSE /\ cart_items' = CartWithoutLine(id[1])
              /\ Respond(s, r, P0_RemoveLineStatus(cart_items, id[1]), FALSE)
  /\ UNCHANGED <<schema, orderVars, catalog, nextCartId, files>>

\* POST /api/products/:id/media: authRequired, then upload.single writes the
\* file to the uploads directory.  req.user is the decoded token, admin or
\* not; line is the place of the file in the directory, seen the number of
\* files the request found there.
P0_PostMedia(s) ==
  /\ variant = "P0" /\ Free(s)
  /\ \E cred \in Creds :
       IF authRequired(cred) # 0
         THEN /\ Respond(s, [ReqBy(cred, "admit", 0, 0, 0) EXCEPT !.seen = Len(uploads)],
                         authRequired(cred), FALSE)
              /\ UNCHANGED uploads
       ELSE \E id \in IdInputs, file \in FileInputs, kind \in KindInputs :
         LET r == [ReqBy(cred, "admit", IF id = <<>> THEN 0 ELSE id[1], 0, 0)
                     EXCEPT !.size = IF file = <<>> THEN 0 ELSE file[1],
                            !.given = kind,
                            !.seen = Len(uploads),
                            !.line = IF file = <<>> THEN 0 ELSE Len(uploads) + 1]
         IN
         /\ file # <<>> => Len(uploads) < MaxUploads
         /\ uploads' = IF file = <<>> THEN uploads ELSE Append(uploads, file[1])
         /\ Await(s, r, "uploaded")
  /\ UNCHANGED <<schema, orderVars, catalog, cartVars, attrs>>

\* fs.unlink(req.file.path)
Unlink(n) ==
  uploads' = [i \in 1..Len(uploads) - 1 |->
                IF i < n THEN uploads[i] ELSE uploads[i + 1]]

\* POST /api/products/:id/media, the handler: it unlinks the file on each of
\* its refusals.  The id of the path is not read, and no row is written.
P0_PostMedia_Handle(s) ==
  /\ variant = "P0" /\ reqs[s].op = "admit" /\ reqs[s].pc = "uploaded"
  /\ LET r == reqs[s]
         kind == r.given
         discard == IF r.line # 0 THEN Unlink(r.line) ELSE UNCHANGED uploads
     IN
     IF r.user # "admin"
       THEN Respond(s, r, 403, FALSE) /\ discard
     ELSE IF r.line = 0 \/ kind = <<>>
       THEN Respond(s, r, 400, FALSE) /\ discard
     ELSE IF kind[1] # "image" /\ kind[1] # "model"
       THEN Respond(s, r, 400, FALSE) /\ discard
     ELSE Respond(s, r, 200, FALSE) /\ UNCHANGED uploads
  /\ UNCHANGED <<schema, orderVars, catalog, cartVars, attrs>>

----------------------------------------------------------------------------
(* Version P1: src/unnamed/part_001 *)

\* POST /api/admin/products
P1_PostProducts(s, F) ==
  /\ variant = "P1" /\ Free(s)
  /\ \E cred \in Creds :
       IF requireAdminP1(cred) # 0
         THEN /\ Respond(s, ReqBy(cred, "createItem", 0, 0, 0), requireAdminP1(cred), FALSE)
              /\ UNCHANGED <<catalog, attrs>>
       ELSE \E body \in F, ok \in BOOLEAN :
         IF ~ok
           THEN /\ Respond(s, ReqBy(cred, "createItem", 0, 0, 0), 500, TRUE)
                /\ UNCHANGED <<catalog, attrs>>
         ELSE /\ InsertProduct(RowOf(body))
              /\ Respond(s, [ReqBy(cred, "createItem", 0, 0, 0) EXCEPT
                               !.newId = nextProductId], 201, FALSE)
              /\ UNCHANGED <<bom_items, nextBomId>>
  /\ UNCHANGED <<schema, orderVars, cartVars, uploads>>

\* PUT /api/admin/products/:id
P1_PutProducts(s, F) ==
  /\ variant = "P1" /\ Free(s)
  /\ \E cred \in Creds :
       IF requireAdminP1(cred) # 0
         THEN /\ Respond(s, ReqBy(cred, "updateItem", 0, 0, 0), requireAdminP1(cred), FALSE)
              /\ UNCHANGED attrs
       ELSE \E id \in IdInputs :
         IF id = <<>>
           THEN /\ Respond(s, ReqBy(cred, "updateItem", 0, 0, 0), 400, FALSE)
                /\ UNCHANGED attrs
         ELSE \E body \in F, ok \in BOOLEAN :
           IF ~ok
             THEN /\ Respond(s, ReqBy(cred, "updateItem", 0, 0, 0), 500, TRUE)
                  /\ UNCHANGED attrs
           ELSE IF id[1] \notin products
             THEN /\ Respond(s, ReqBy(cred, "updateItem", id[1], 0, 0), 404, FALSE)
                  /\ UNCHANGED attrs
           ELSE /\ attrs' = [attrs EXCEPT ![id[1]] = SetRow(@, body)]
                /\ Respond(s, ReqBy(cred, "updateItem", id[1], 0, 0), 200, FALSE)
  /\ UNCHANGED <<schema, orderVars, catalog, cartVars, uploads>>

\* DELETE /api/admin/products/:id, first statement: the BOM rows
P1_DeleteProduct(s) ==
  /\ variant = "P1" /\ Free(s)
  /\ \E cred \in Creds :
       IF requireAdminP1(cred) # 0
         THEN /\ Respond(s, ReqBy(cred, "deleteItem", 0, 0, 0), requireAdminP1(cred), FALSE)
              /\ UNCHANGED bom_items
       ELSE \E id \in IdInputs :
         IF id = <<>>
           THEN /\ Respond(s, ReqBy(cred, "deleteItem", 0, 0, 0), 400, FALSE)
                /\ UNCHANGED bom_items
         ELSE \E ok \in BOOLEAN :
           IF ~ok
             THEN /\ Respond(s, ReqBy(cred, "deleteItem", 0, 0, 0), 500, TRUE)
                  /\ UNCHANGED bom_items
           ELSE /\ bom_items' = BomWithout(id[1])
                /\ Await(s, [ReqBy(cred, "deleteItem", id[1], 0, 0) EXCEPT
                               !.dirty = (BomWithout(id[1]) # bom_items)],
                         "delProduct")
  /\ UNCHANGED <<schema, orderVars, products, nextProductId, nextBomId, cartVars, files>>

\* DELETE /api/admin/products/:id, last statement: the product row
P1_DeleteProduct_Row(s) ==
  /\ variant = "P1" /\ reqs[s].op = "deleteItem" /\ reqs[s].pc = "delProduct"
  /\ \E ok \in BOOLEAN :
       IF ~ok
         THEN Respond(s, reqs[s], 500, TRUE) /\ UNCHANGED products
       ELSE IF DeleteRefused(reqs[s].id)
         THEN Respond(s, reqs[s], 500, FALSE) /\ UNCHANGED products
       ELSE IF reqs[s].id \notin products
         THEN Respond(s, reqs[s], 404, FALSE) /\ UNCHANGED products
       ELSE /\ products' = products \ {reqs[s].id}
            /\ Respond(s, reqs[s], 200, FALSE)
  /\ UNCHANGED <<schema, orderVars, nextProductId, bom_items, nextBomId, cartVars, files>>

\* POST /api/cart/add: the SELECT that looks the product up.
\* Q: the quantities the requests carry.
P1_CartAdd(s, Q) ==
  /\ variant = "P1" /\ Free(s)
  /\ \E product_id \in IdInputs, quantity \in Q :
       LET qty == IF quantity = <<>> \/ quantity[1] = 0 THEN 1 ELSE quantity[1]
           pid == IF product_id = <<>> THEN 0 ELSE product_id[1]
           r == Req("addLine", pid, 0, qty)
       IN
       IF product_id = <<>>
         THEN Respond(s, r, 400, FALSE)
       ELSE \E ok \in BOOLEAN :
         IF ~ok
           THEN Respond(s, Req("addLine", 0, 0, 0), 500, TRUE)
         ELSE IF pid \notin products
           THEN Respond(s, r, 404, FALSE)
         ELSE Await(s, [r EXCEPT !.found = attrs[pid].code], "push")
  /\ UNCHANGED <<schema, orderVars, catalog, cartVars, files>>

\* POST /api/cart/add, after the await: cart.push(item)
P1_CartAdd_Push(s) ==
  /\ variant = "P1" /\ reqs[s].op = "addLine" /\ reqs[s].pc = "push"
  /\ nextCartId <= MaxCart
  /\ cart_items' = Append(cart_items,
                          CartItem(nextCartId, reqs[s].id, reqs[s].qty,
                                   reqs[s].found))
  /\ nextCartId' = nextCartId + 1
  /\ Respond(s, reqs[s], 201, FALSE)
  /\ UNCHANGED <<schema, orderVars, catalog, files>>

\* SELECT b.id, b.quantity, p.id, p.code, ... FROM bom_items b
\* JOIN products p ON p.id = <child column> WHERE <parent column> = $1:
\* one row per edge of the parent whose child is a row of products.  The
\* order of the rows is left out.
ChildrenRows(id) ==
  {[bom_item_id |-> b.id, quantity |-> b.quantity, product_id |-> b.child,
    code |-> attrs[b.child].code, type |-> attrs[b.child].type,
    mass_kg |-> attrs[b.child].mass_kg] : b \in listChildren(id)}

\* GET /api/products/:id/children.  badId is the answer for an id that is no
\* integer: 400 where the handler tests it (second server of src/index.js,
\* part_001), 500 where the id goes to the statement as it is.
GetChildren(s, badId) ==
  /\ Free(s)
  /\ \E id \in IdInputs :
       IF id = <<>>
         THEN Respond(s, Req("listChildren", 0, 0, 0), badId, FALSE)
       ELSE \E ok \in BOOLEAN :
         IF ~ok
           THEN Respond(s, Req("listChildren", 0, 0, 0), 500, TRUE)
         ELSE Respond(s, [Req("listChildren", id[1], 0, 0)
                            EXCEPT !.rows = ChildrenRows(id[1])],
                      200, FALSE)
  /\ UNCHANGED <<schema, orderVars, catalog, cartVars, files>>

A_GetChildren(s) == variant = "A" /\ GetChildren(s, 500)

B_GetChildren(s) == variant = "B" /\ GetChildren(s, 400)

P0_GetChildren(s) == variant = "P0" /\ GetChildren(s, 500)

P1_GetChildren(s) == variant = "P1" /\ GetChildren(s, 400)

\* GET /api/cart on the three servers that keep the cart in cart_items:
\* SELECT c.id, c.quantity, p.id, p.code, ... FROM cart_items c
\* JOIN products p ON p.id = c.product_id ORDER BY c.id
listLinesJoin ==
  LET joined == SelectSeq(cart_items, LAMBDA l : l.product_id \in products) IN
  [i \in 1..Len(joined) |->
     CartItem(joined[i].id, joined[i].product_id, joined[i].quantity,
              attrs[joined[i].product_id].code)]

\* GET /api/cart of part_001: res.json(cart)
listLinesP1 == cart_items

listLines == IF variant = "P1" THEN listLinesP1 ELSE listLinesJoin

\* app.delete('/api/cart/:id'), app.delete('/api/cart')
P1_CartDeleteRoutes ==
  <<Route(<<":id">>, "removeLine"), Route(<<>>, "clear")>>

\* The answer of DELETE /api/cart/:id for the line id: { success: true }
P1_RemoveLineStatus(cart, id) == 200

\* DELETE below /api/cart.  No item of the cart has the id NaN.
P1_CartDelete(s) ==
  /\ variant = "P1" /\ Free(s)
  /\ \E path \in CartPaths :
       LET h == Dispatch(P1_CartDeleteRoutes, path)
           id == IF path = <<>> THEN NaN ELSE Number(path[1])
           r == [Req(h, IF id = NaN THEN 0 ELSE id[1], 0, 0)
                   EXCEPT !.given = path]
       IN
       IF h = "removeLine"
         THEN /\ cart_items' = CartWithoutLine(IF id = NaN THEN 0 ELSE id[1])
              /\ Respond(s, r,
                         P1_RemoveLineStatus(cart_items,
                                             IF id = NaN THEN 0 ELSE id[1]),
                         FALSE)
       ELSE cart_items' = <<>> /\ Respond(s, r, 200, FALSE)
  /\ UNCHANGED <<schema, orderVars, catalog, nextCartId, files>>

----------------------------------------------------------------------------
(* Specifications *)

\* The tables outlive the server: it starts on the catalog earlier requests
\* left, here product 1 containing product 2 once.
SomeRows ==
  /\ products = {1, 2} /\ nextProductId = 3
  /\ bom_items = {BomRow(1, 1, 2, 1)} /\ nextBomId = 2

InitStore ==
  /\ variant \in Variants
  /\ fk \in (IF variant = "P0" THEN {TRUE} ELSE BOOLEAN)
  /\ SomeRows
  /\ cart_items = <<>> /\ nextCartId = 1
  /\ attrs = [i \in 1..MaxProducts |->
                IF i \in products THEN RowOf(GoodBody) ELSE NoRow]
  /\ uploads = <<>>
  /\ orders = {} /\ order_items = <<>> /\ nextOrderId = 1

\* One request at a time
Init == InitStore /\ reqs = [s \in Slots |-> IF s = 1 THEN Idle ELSE Off]

\* Two requests whose storage calls interleave
InitConc ==
  /\ InitStore /\ variant \in {"B", "P0"}
  /\ reqs = [s \in Slots |-> Idle]

\* The first line of the cart, added while the catalog is explored
CatalogCartAdd(s) ==
  /\ nextCartId <= MaxCatalogCart
  /\ \/ A_CartAdd(s, DefaultQty)
     \/ B_CartAdd(s, DefaultQty)
     \/ P1_CartAdd(s, DefaultQty)

Next ==
  \E s \in Slots :
    \/ A_PostProducts(s, PlainBodies)
    \/ A_DeleteProduct(s)
    \/ A_DeleteProduct_Cart(s)
    \/ A_DeleteProduct_Row(s)
    \/ B_PostProducts(s, PlainBodies)
    \/ B_DeleteProduct(s)
    \/ B_DeleteProduct_Cart(s)
    \/ B_DeleteProduct_Row(s)
    \/ B_PostBom(s, QtyInputs)
    \/ B_DeleteBom(s)
    \/ P0_PostProducts(s, PlainBodies)
    \/ P0_PostProducts_Link(s)
    \/ P0_PostProducts_Commit(s)
    \/ P0_DeleteBom(s)
    \/ P1_PostProducts(s, PlainBodies)
    \/ P1_DeleteProduct(s)
    \/ P1_DeleteProduct_Row(s)
    \/ CatalogCartAdd(s)
    \/ P1_CartAdd_Push(s)

Spec == Init /\ [][Next]_vars

\* The handlers that create and delete items and edges, interleaved
NextConc ==
  \E s \in Slots :
    \/ B_DeleteProduct(s)
    \/ B_DeleteProduct_Cart(s)
    \/ B_DeleteProduct_Row(s)
    \/ B_PostBom(s, DefaultQty)
    \/ P0_PostProducts(s, PlainBodies)
    \/ P0_PostProducts_Link(s)
    \/ P0_PostProducts_Commit(s)

SpecConc == InitConc /\ [][NextConc]_vars

\* The cart, one request at a time, over the catalog as it starts
NextCart ==
  \E s \in Slots :
    \/ A_CartAdd(s, CartQtyInputs)
    \/ B_CartAdd(s, CartQtyInputs)
    \/ P0_CartAdd(s, CartQtyInputs)
    \/ P0_CartAdd_Write(s)
    \/ P1_CartAdd(s, CartQtyInputs)
    \/ P1_CartAdd_Push(s)
    \/ A_CartClear(s)
    \/ B_CartDelete(s)
    \/ P0_CartDelete(s)
    \/ P1_CartDelete(s)

SpecCart == Init /\ [][NextCart]_vars

\* The attributes of the items: createItem and updateItem, one at a time
NextAttrs ==
  \E s \in Slots :
    \/ A_PostProducts(s, Bodies)
    \/ A_PutProducts(s, Bodies)
    \/ B_PostProducts(s, Bodies)
    \/ B_PutProducts(s, Bodies)
    \/ P0_PostProducts(s, Bodies)
    \/ P0_PostProducts_Link(s)
    \/ P0_PostProducts_Commit(s)
    \/ P0_PutProducts(s, Bodies)
    \/ P1_PostProducts(s, Bodies)
    \/ P1_PutProducts(s, Bodies)

SpecAttrs == Init /\ [][NextAttrs]_vars

\* The reading of the children, between additions of edges
NextRead ==
  \E s \in Slots :
    \/ A_GetChildren(s)
    \/ B_GetChildren(s)
    \/ P0_GetChildren(s)
    \/ P1_GetChildren(s)
    \/ B_PostBom(s, DefaultQty)

SpecRead == Init /\ [][NextRead]_vars

\* The listings in their order, between creations of items with two codes
NextOrder ==
  \E s \in Slots :
    \/ A_PostProducts(s, OrderBodies)
    \/ B_PostProducts(s, OrderBodies)
    \/ P0_PostProducts(s, OrderBodies)
    \/ P0_PostProducts_Link(s)
    \/ P0_PostProducts_Commit(s)
    \/ P1_PostProducts(s, OrderBodies)

SpecOrder == Init /\ [][NextOrder]_vars

\* The cart as it is listed, between adds and updates of the items' codes
NextLines ==
  \E s \in Slots :
    \/ A_CartAdd(s, DefaultQty)
    \/ B_CartAdd(s, DefaultQty)
    \/ P0_CartAdd(s, DefaultQty)
    \/ P0_CartAdd_Write(s)
    \/ P1_CartAdd(s, DefaultQty)
    \/ P1_CartAdd_Push(s)
    \/ A_PutProducts(s, OrderBodies)
    \/ B_PutProducts(s, OrderBodies)
    \/ P0_PutProducts(s, OrderBodies)
    \/ P1_PutProducts(s, OrderBodies)

SpecLines == Init /\ [][NextLines]_vars

\* Two cart adds whose storage calls interleave, on the two servers that
\* merge the lines of an item
InitCartConc ==
  /\ InitStore /\ variant \in {"A", "P0"}
  /\ reqs = [s \in Slots |-> Idle]

NextCartConc ==
  \E s \in Slots :
    \/ A_CartAdd(s, QtyInputs)
    \/ P0_CartAdd(s, QtyInputs)
    \/ P0_CartAdd_Write(s)

SpecCartConc == InitCartConc /\ [][NextCartConc]_vars

\* Filling the cart and placing orders, one request at a time
InitPlace == Init /\ variant = "B"

PlaceOrder(s) ==
  \/ B_PostOrders(s)
  \/ B_PostOrders_Insert(s)
  \/ B_PostOrders_Wipe(s)
  \/ B_PostOrders_Commit(s)

NextPlace ==
  \E s \in Slots :
    \/ B_CartAdd(s, QtyInputs)
    \/ PlaceOrder(s)

SpecPlace == InitPlace /\ [][NextPlace]_vars

\* Orders placed while lines are added: two requests whose storage calls
\* interleave
InitPlaceConc ==
  /\ InitStore /\ variant = "B"
  /\ reqs = [s \in Slots |-> Idle]

NextPlaceConc ==
  \E s \in Slots :
    \/ B_CartAdd(s, DefaultQty)
    \/ PlaceOrder(s)

SpecPlaceConc == InitPlaceConc /\ [][NextPlaceConc]_vars

\* The handlers that hold a client of the pool across awaits, one request at
\* a time.  A storage call that was issued settles: the step after an await
\* is taken once it stays possible.
InitTx == Init /\ variant \in {"B", "P0"}

TxResume(s) ==
  \/ B_PostOrders_Insert(s)
  \/ B_PostOrders_Wipe(s)
  \/ B_PostOrders_Commit(s)
  \/ P0_PostProducts_Link(s)
  \/ P0_PostProducts_Commit(s)

NextTx ==
  \E s \in Slots :
    \/ B_CartAdd(s, DefaultQty)
    \/ B_PostOrders(s)
    \/ nextBomId <= MaxBom /\ P0_PostProducts(s, PlainBodies)
    \/ TxResume(s)

SpecTx == InitTx /\ [][NextTx]_vars /\ \A s \in Slots : WF_vars(TxResume(s))

\* The two servers that take uploads
InitMedia == Init /\ variant \in {"B", "P0"}

\* The uploads, one request at a time, over the catalog as it starts
NextMedia ==
  \E s \in Slots :
    \/ B_PostImage2d(s)
    \/ P0_PostMedia(s)
    \/ P0_PostMedia_Handle(s)

SpecMedia == InitMedia /\ [][NextMedia]_vars

----------------------------------------------------------------------------
(* The composition graph *)

\* The items one edge below n in the edge set E
ChildrenIn(E, n) == {b.child : b \in {x \in E : x.parent = n}}

RECURSIVE Below(_, _, _)
Below(E, S, k) ==
  IF k = 0 THEN S
  ELSE Below(E, S \cup UNION {ChildrenIn(E, n) : n \in S}, k - 1)

\* The items at least one edge below n
Descendants(E, n) == Below(E, ChildrenIn(E, n), Cardinality(E))

Parentless == {p \in products : \A b \in bom_items : b.child # p}

Done(s, op) == reqs[s].pc = "done" /\ reqs[s].op = op

\* The edges other than the one request r inserted
EdgesBefore(r) == {b \in bom_items : b.id # r.edge}

\* The edge request r asks for would close a cycle
ClosesCycle(r) ==
  r.id = r.child \/ r.id \in Descendants(EdgesBefore(r), r.child)

----------------------------------------------------------------------------
(* Claims *)

C2_DeleteLeavesNoReference ==
  \A s \in Slots :
    Done(s, "deleteItem") /\ reqs[s].status = 200 =>
      /\ \A b \in bom_items : b.parent # reqs[s].id /\ b.child # reqs[s].id
      /\ \A i \in 1..Len(cart_items) : cart_items[i].product_id # reqs[s].id

\* C3: a deleteItem that answers with a failure has changed no row.
C3_FailedDeleteLeavesNoEffect ==
  \A s \in Slots :
    Done(s, "deleteItem") /\ reqs[s].status >= 400 => ~reqs[s].dirty

\* C4: no state a reader can see lies between the state before and the state
\* after a deleteItem or a createItem: while a deleteItem is under way and
\* has removed rows the item is gone too, and while a createItem is under way
\* neither the new item nor its edge is there.
C4_NoIntermediateStateVisible ==
  \A s \in Slots :
    /\ reqs[s].op = "deleteItem" /\ reqs[s].pc \in {"delCart", "delProduct"}
         /\ reqs[s].dirty
       => reqs[s].id \notin products
    /\ reqs[s].op = "createItem" /\ reqs[s].pc \in {"link", "commit"}
       => /\ reqs[s].newId \notin products
          /\ \A b \in bom_items : b.child # reqs[s].newId

\* C5: the composition graph is acyclic: no item lies below itself.
C5_Acyclic == \A b \in bom_items : b.parent \notin Descendants(bom_items, b.parent)

\* C6: addCompositionEdge(parent, child) with parent = child, or with child
\* already above parent, is answered with an error and inserts no edge.
C6_CycleEdgeRejected ==
  \A s \in Slots :
    Done(s, "addEdge") /\ ClosesCycle(reqs[s]) =>
      reqs[s].status >= 400 /\ reqs[s].edge = 0

\* C7: addCompositionEdge(parent, child, qty) with existing parent # child,
\* child not above parent and qty > 0 succeeds, unless the storage call
\* itself fails, and listChildren(parent) then holds child with qty.
C7_ValidEdgeListed ==
  \A s \in Slots :
    /\ Done(s, "addEdge") /\ ~reqs[s].fault
    /\ reqs[s].id \in products /\ reqs[s].child \in products
    /\ ~ClosesCycle(reqs[s]) /\ reqs[s].qty > 0
    => /\ reqs[s].status = 201
       /\ \E b \in listChildren(reqs[s].id) :
            /\ b.id = reqs[s].edge
            /\ b.child = reqs[s].child
            /\ b.quantity = reqs[s].qty

\* C7 witness: an edge with quantity 2 between two different existing items
\* was added and is listed.
C7_Witness ==
  /\ Done(1, "addEdge") /\ reqs[1].status = 201 /\ reqs[1].qty = 2
  /\ reqs[1].id \in products /\ reqs[1].child \in products
  /\ ~ClosesCycle(reqs[1])
  /\ \E b \in listChildren(reqs[1].id) : b.id = reqs[1].edge

\* C8: whatever the interleaving of deleteItem(X) with addCompositionEdge
\* or createItem using X, both ends of every edge are existing items, and a
\* request that fails because of the other one has changed no row.
C8_NoDanglingEdgeNoPartialLoser ==
  /\ \A b \in bom_items : b.parent \in products /\ b.child \in products
  /\ \A s \in Slots :
       reqs[s].pc = "done" /\ reqs[s].status >= 400 /\ ~reqs[s].fault
       => ~reqs[s].dirty

\* C9: every composition edge has a quantity above 0.
C9_QuantityPositive == \A b \in bom_items : b.quantity > 0

\* C10: createItem with a parent (part_000) leaves the new item and its edge
\* both or neither, and leaves no new item when the given parent was no
\* item before the request.
C10_CreateWithParentAtomic ==
  \A s \in Slots :
    variant = "P0" /\ reqs[s].op = "createItem" /\ reqs[s].id # 0 =>
      /\ reqs[s].newId \in products
         <=> \E b \in bom_items :
               /\ b.id = reqs[s].edge
               /\ b.parent = reqs[s].id /\ b.child = reqs[s].newId
      /\ reqs[s].id \notin products \ {reqs[s].newId}
         => reqs[s].newId \notin products

\* The part of C10 the transaction of part_000 keeps: the new item and its
\* edge are there both or neither.
P0_BothOrNeither ==
  \A s \in Slots :
    variant = "P0" /\ reqs[s].op = "createItem" /\ reqs[s].id # 0 =>
      (reqs[s].newId \in products
       <=> \E b \in bom_items :
             /\ b.id = reqs[s].edge
             /\ b.parent = reqs[s].id /\ b.child = reqs[s].newId)

\* The entries of listChildren(r.id) for the item request r created
NewChildEntries(r) == {b \in listChildren(r.id) : b.child = r.newId}

\* The quantity createItem is to store for the quantity field as sent
QuantityAsked(given) == IF given # <<>> /\ given[1] > 0 THEN given[1] ELSE 1

Kinds == {"Assembly", "Part", "Standard"}

\* C12: every item has code (and name) and kind present, its kind is one of
\* Assembly, Part, Standard, and a number that is present is not negative.
C12_AttributesValid ==
  \A p \in products :
    /\ attrs[p].code # Null
    /\ attrs[p].type # Null /\ attrs[p].type[1] \in Kinds
    /\ attrs[p].mass_kg # Null => attrs[p].mass_kg[1] >= 0

\* updateItem of the deployed version, for the bodies F
UpdateItem(s, F) ==
  \/ A_PutProducts(s, F)
  \/ B_PutProducts(s, F)
  \/ P0_PutProducts(s, F)
  \/ P1_PutProducts(s, F)

\* The step is updateItem(id, body) in slot s answering 200
Updated(s, id, body) ==
  /\ UpdateItem(s, {body})
  /\ reqs'[s].status = 200 /\ reqs'[s].id = id

\* C15: updateItem(id, partial) leaves every attribute that is absent from
\* the request as it was.
C15_AbsentFieldsKept ==
  [][\A s \in Slots, body \in Bodies, id \in products :
       Updated(s, id, body) =>
         /\ body.code = Absent => attrs'[id].code = attrs[id].code
         /\ body.type = Absent => attrs'[id].type = attrs[id].type
         /\ body.mass_kg = Absent => attrs'[id].mass_kg = attrs[id].mass_kg]_vars

\* C16: updateItem(id, partial) of the second server of index.js with an
\* explicit null for an optional field leaves that field null.
C16_ExplicitNullClears ==
  [][\A s \in Slots, body \in Bodies, id \in products :
       variant = "B" /\ Updated(s, id, body) /\ body.mass_kg = <<Null>>
       => attrs'[id].mass_kg = Null]_vars

\* C13: deleteItem(id) for an id that is no item is answered Not-Found and
\* changes nothing (unless a storage call of it fails).
C13_MissingItemNotFound ==
  \A s \in Slots :
    /\ Done(s, "deleteItem") /\ ~reqs[s].fault
    /\ reqs[s].id # 0 /\ reqs[s].status # 200
    => reqs[s].status = 404 /\ ~reqs[s].dirty

\* The edges that have item id at one end
Incident(id) == {b \in bom_items : b.parent = id \/ b.child = id}

\* The step is the first statement of deleteItem in slot s
DeleteBegins(s) ==
  /\ Free(s) /\ reqs'[s].op = "deleteItem"
  /\ reqs'[s].pc \in {"delCart", "delProduct"}

\* The step is the last statement of deleteItem in slot s, answering 200
DeleteEnds(s) ==
  /\ reqs[s].op = "deleteItem" /\ reqs[s].pc = "delProduct"
  /\ reqs'[s].pc = "done" /\ reqs'[s].status = 200

\* The step is a statement of deleteItem in slot s
DeleteStep(s) ==
  \/ DeleteBegins(s)
  \/ reqs[s].op = "deleteItem" /\ reqs[s].pc \in {"delCart", "delProduct"}

\* C14: deleteItem(B) removes exactly the edges that have B at one end and
\* the item B, and no other item or edge: its first statement removes those
\* edges, so that a child of B with no other parent is a root and no parent
\* lists B any more, no statement touches another edge or item, and the
\* last one removes B alone.
C14_DeleteRemovesExactly ==
  [][\A s \in Slots :
       /\ DeleteBegins(s) =>
            /\ bom_items' = bom_items \ Incident(reqs'[s].id)
            /\ \A c \in products \ {reqs'[s].id} :
                 (\A b \in bom_items : b.child = c => b.parent = reqs'[s].id)
                 => c \in listRoots'
            /\ \A p \in products :
                 \A b \in listChildren(p)' : b.child # reqs'[s].id
       /\ DeleteStep(s) =>
            /\ bom_items' \subseteq bom_items
            /\ bom_items \ bom_items' \subseteq Incident(reqs'[s].id)
            /\ products \ {reqs'[s].id} \subseteq products'
       /\ DeleteEnds(s) =>
            /\ products' = products \ {reqs[s].id}
            /\ reqs[s].id \in products
            /\ bom_items' = bom_items /\ Incident(reqs[s].id) = {}
            /\ listRoots' = listRoots \ {reqs[s].id}]_vars

\* C14 witness: item 2 was deleted after two edges had been stored; items 1
\* and 3 remain, with no edge, and both are roots.
C14_Witness ==
  /\ Done(1, "deleteItem") /\ reqs[1].status = 200 /\ reqs[1].dirty
  /\ reqs[1].id = 2 /\ products = {1, 3}
  /\ nextBomId = 3 /\ bom_items = {}
  /\ listRoots = {1, 3}

----------------------------------------------------------------------------
(* The cart *)

\* The lines of the cart that are for the item
LinesOf(cart, pid) == {i \in 1..Len(cart) : cart[i].product_id = pid}

RECURSIVE QuantityOf(_, _)
\* The quantities of the cart's lines for the item, added up
QuantityOf(cart, pid) ==
  IF cart = <<>> THEN 0
  ELSE (IF Head(cart).product_id = pid THEN Head(cart).quantity ELSE 0)
       + QuantityOf(Tail(cart), pid)

\* The step in which an addLine request changes the cart
LineAdded(s) ==
  /\ reqs'[s].op = "addLine" /\ reqs'[s].pc = "done"
  /\ reqs[s].pc # "off"
  /\ cart_items' # cart_items

\* C17: the cart holds at most one line per item; every add of an item leaves
\* one line for it, whose quantity is the quantity the cart had for the item
\* plus the quantity added.
C17_OneLinePerItem ==
  [][\A s \in Slots :
       LineAdded(s) =>
         /\ Cardinality(LinesOf(cart_items', reqs'[s].id)) = 1
         /\ QuantityOf(cart_items', reqs'[s].id)
              = QuantityOf(cart_items, reqs'[s].id) + reqs'[s].qty]_vars

\* C18: every line of the cart has a quantity greater than zero.
C18_LineQuantityPositive ==
  \A i \in 1..Len(cart_items) : cart_items[i].quantity > 0

\* C19: an addLine request for an item that does not exist is answered with
\* an error and leaves the cart as it was.
C19_MissingItemRejected ==
  [][\A s \in Slots :
       (/\ reqs'[s].op = "addLine" /\ reqs'[s].pc = "done"
        /\ reqs[s].pc # "off" /\ reqs'[s] # reqs[s]
        /\ reqs'[s].id # 0 /\ reqs'[s].id \notin products)
       => /\ reqs'[s].status \notin {200, 201}
          /\ cart_items' = cart_items]_vars

----------------------------------------------------------------------------
(* The uploads *)

RECURSIVE Sum(_)
Sum(sizes) == IF sizes = <<>> THEN 0 ELSE Head(sizes) + Sum(Tail(sizes))

\* getDirStats(UPLOAD_ROOT).totalBytes: the sizes of the files stored
currentUsage == Sum(uploads)

\* The usage the request in slot s found: the files that were in the
\* directory before it, requests being handled one at a time
usageFound(s) == Sum(SubSeq(uploads, 1, reqs[s].seen))

\* The step in which an upload is answered
Answered(s) ==
  /\ reqs'[s].op = "admit" /\ reqs'[s].pc = "done"
  /\ reqs[s].pc # "off"
  /\ reqs'[s] # reqs[s] \/ uploads' # uploads

\* The step in which an upload is answered with success
Admitted(s) == Answered(s) /\ reqs'[s].status = 200

\* The step in which an upload is answered with a refusal
Refused(s) == Answered(s) /\ reqs'[s].status # 200

\* C20: no upload is admitted when the usage plus its size is above the
\* storage limit, and the files stored never add up to more than the limit.
C20_QuotaNeverExceeded ==
  [][/\ \A s \in Slots :
          Admitted(s) => usageFound(s)' + reqs'[s].size <= STORAGE_LIMIT_KIB
     /\ currentUsage' <= STORAGE_LIMIT_KIB]_vars

\* C21: after an upload that was refused the usage is what it was before the
\* request, and no file of the request is left in the directory.
C21_RefusalLeavesNoFile ==
  [][\A s \in Slots :
       Refused(s) => /\ Len(uploads') = reqs'[s].seen
                     /\ currentUsage' = usageFound(s)']_vars

\* The upload is one to admit if there is room: the sender is an admin, the
\* item exists, a file was sent, the kind is one of the two, and no storage
\* call failed for a reason outside the request
Admissible(r) ==
  /\ r.status \notin {401, 403} /\ ~r.fault
  /\ r.id \in products /\ r.size > 0
  /\ r.given \in {<<"image">>, <<"model">>}

\* C22: an admissible upload that keeps the usage within the limit is
\* admitted and the usage grows by exactly its size; one that would carry the
\* usage above the limit is refused and the usage stays.
C22_AdmitWithinQuota ==
  [][\A s \in Slots :
       Answered(s) /\ Admissible(reqs'[s]) =>
         IF usageFound(s)' + reqs'[s].size <= STORAGE_LIMIT_KIB
           THEN /\ reqs'[s].status = 200
                /\ currentUsage' = usageFound(s)' + reqs'[s].size
           ELSE /\ reqs'[s].status # 200
                /\ currentUsage' = usageFound(s)']_vars

\* C22, without the refusal: an admissible upload is admitted and the usage
\* grows by exactly its size.
C22_AdmitAddsSize ==
  [][\A s \in Slots :
       Answered(s) /\ Admissible(reqs'[s]) =>
         /\ reqs'[s].status = 200
         /\ currentUsage' = usageFound(s)' + reqs'[s].size]_vars

\* The operations that need the admin
WriteOps ==
  {"createItem", "updateItem", "deleteItem", "addEdge", "deleteEdge", "admit"}

\* A step of a write operation whose sender is not a verified admin: no
\* token, an invalid one, or the token of a user who is no admin
Unverified(s) ==
  /\ reqs'[s].op \in WriteOps /\ reqs[s].pc # "off"
  /\ reqs'[s].user # "admin"

\* C24: no step of a write operation whose sender is not a verified admin
\* changes the catalog or the files.
C24_NoChangeWithoutAdmin ==
  [][\A s \in Slots :
       Unverified(s) => catalog' = catalog /\ files' = files]_vars

\* C25: a write operation sent with no token or an invalid one is answered
\* 401, one sent with the valid token of a user who is no admin is answered
\* 403, and neither changes the catalog or the files.
C25_Unauthorized401Forbidden403 ==
  [][\A s \in Slots :
       Unverified(s) /\ reqs'[s].pc = "done" =>
         /\ reqs'[s].status = IF reqs'[s].user = "user" THEN 403 ELSE 401
         /\ catalog' = catalog /\ files' = files]_vars

\* No request is being handled
Quiescent == \A s \in Slots : reqs[s].pc \in {"idle", "done", "off"}

\* The items whose image2d_url is the URL of the file
OwnersOf(n) == {i \in products : attrs[i].image2d_url = <<n>>}

\* C23: when no request is being handled, every file stored is the file of
\* exactly one item, and every URL an item holds is that of a file stored.
C23_NoOrphanMedia ==
  Quiescent =>
    /\ \A n \in 1..Len(uploads) : Cardinality(OwnersOf(n)) = 1
    /\ \A i \in products :
         attrs[i].image2d_url # Null
         => attrs[i].image2d_url[1] \in 1..Len(uploads)

----------------------------------------------------------------------------
(* Edges and items that are not there *)

\* The step in which a request for operation op is answered, no storage call
\* having failed for a reason outside the request
AnsweredOp(s, op) ==
  /\ reqs'[s].op = op /\ reqs'[s].pc = "done"
  /\ reqs[s].pc # "off" /\ reqs'[s] # reqs[s]
  /\ reqs'[s].user = "admin" /\ ~reqs'[s].fault

\* C26: deleteCompositionEdge of an edge removes that edge and nothing else;
\* of an id that is no edge, it is answered Not-Found and changes nothing.
C26_DeleteEdgeExactly ==
  [][\A s \in Slots :
       AnsweredOp(s, "deleteEdge") /\ reqs'[s].id # 0 =>
         /\ UNCHANGED <<products, cart_items, attrs>>
         /\ IF \E b \in bom_items : b.id = reqs'[s].id
              THEN /\ reqs'[s].status = 200
                   /\ bom_items' = {b \in bom_items : b.id # reqs'[s].id}
              ELSE /\ reqs'[s].status = 404
                   /\ bom_items' = bom_items]_vars

\* C27: addCompositionEdge with a parent or a child that is no item is
\* answered with a Not-Found or validation error, not an internal one, and
\* inserts no edge; updateItem of an id that is no item is answered Not-Found
\* and changes nothing.
C27_MissingItemIsNotFound ==
  [][\A s \in Slots :
       /\ (/\ AnsweredOp(s, "addEdge") /\ reqs'[s].id # 0
           /\ ~(reqs'[s].id \in products /\ reqs'[s].child \in products))
          => /\ reqs'[s].status \in {400, 404}
             /\ bom_items' = bom_items
       /\ (/\ AnsweredOp(s, "updateItem") /\ reqs'[s].id # 0
           /\ reqs'[s].id \notin products)
          => /\ reqs'[s].status = 404
             /\ UNCHANGED <<catalog, files>>]_vars

\* C27, the half about updateItem
C27_UpdateOfMissingItem ==
  [][\A s \in Slots :
       (/\ AnsweredOp(s, "updateItem") /\ reqs'[s].id # 0
        /\ reqs'[s].id \notin products)
       => /\ reqs'[s].status = 404
          /\ UNCHANGED <<catalog, files>>]_vars

----------------------------------------------------------------------------
(* Emptying the cart and removing lines *)

\* The DELETE routes below /api/cart of the server
CartDeleteRoutes ==
  IF variant = "B" THEN B_CartDeleteRoutes
  ELSE IF variant = "P0" THEN P0_CartDeleteRoutes
  ELSE IF variant = "P1" THEN P1_CartDeleteRoutes
  ELSE <<>>

\* The paths the server registers for emptying the cart: those of its
\* routes whose handler is the clear handler (POST /api/cart/clear on the
\* first server of src/index.js)
ClearEntries ==
  IF variant = "A" THEN {<<"clear">>}
  ELSE {CartDeleteRoutes[i].path :
          i \in {j \in 1..Len(CartDeleteRoutes) :
                   CartDeleteRoutes[j].handler = "clear"}}

\* The step in which a request below /api/cart other than an add is
\* answered, no storage call having failed for a reason outside the request
CartAnswered(s) ==
  /\ reqs'[s].op \in {"clear", "removeLine", "noRoute"}
  /\ reqs'[s].pc = "done" /\ reqs[s].pc # "off"
  /\ reqs'[s] # reqs[s] \/ cart_items' # cart_items
  /\ ~reqs'[s].fault

\* C28: a request to any path the server registers for emptying the cart
\* leaves the cart empty.
C28_ClearEmptiesCart ==
  [][\A s \in Slots :
       CartAnswered(s) /\ reqs'[s].given \in ClearEntries =>
         cart_items' = <<>>]_vars

\* C29: removeLine removes the line with the id and no other; for an id that
\* is no line the cart stays as it is and the answer is the one every
\* implementation of the operation gives.
C29_RemoveLineOnePolicy ==
  [][\A s \in Slots :
       CartAnswered(s) /\ reqs'[s].op = "removeLine" /\ reqs'[s].id # 0 =>
         /\ cart_items' = SelectSeq(cart_items, LAMBDA l : l.id # reqs'[s].id)
         /\ (\A i \in 1..Len(cart_items) : cart_items[i].id # reqs'[s].id)
            => /\ cart_items' = cart_items
               /\ reqs'[s].status = B_RemoveLineStatus(cart_items, reqs'[s].id)
               /\ reqs'[s].status = P0_RemoveLineStatus(cart_items, reqs'[s].id)
               /\ reqs'[s].status = P1_RemoveLineStatus(cart_items, reqs'[s].id)]_vars

\* C29, the half about the cart: removeLine removes the line with the id
\* and no other.
C29_RemoveLineExactly ==
  [][\A s \in Slots :
       CartAnswered(s) /\ reqs'[s].op = "removeLine" /\ reqs'[s].id # 0 =>
         cart_items' = SelectSeq(cart_items, LAMBDA l : l.id # reqs'[s].id)]_vars

----------------------------------------------------------------------------
(* Reading the children *)

\* C30: listChildren of an id answers with one entry for each edge whose
\* parent is the id, holding that edge's quantity and the attributes of its
\* child, and with no other entry; it answers with no entry, not an error,
\* when there is no such edge; and it changes nothing.
C30_ChildrenAreTheEdges ==
  [][\A s \in Slots :
       (/\ reqs'[s].op = "listChildren" /\ reqs'[s].pc = "done"
        /\ reqs[s].pc # "off" /\ reqs'[s] # reqs[s]
        /\ reqs'[s].id # 0 /\ ~reqs'[s].fault)
       => LET id == reqs'[s].id
              rows == reqs'[s].rows
              edges == {b \in bom_items : b.parent = id}
          IN
          /\ reqs'[s].status = 200
          /\ UNCHANGED <<catalog, cartVars, files>>
          /\ \A b \in edges :
               /\ Cardinality({r \in rows : r.bom_item_id = b.id}) = 1
               /\ \A r \in rows :
                    r.bom_item_id = b.id =>
                      /\ r.quantity = b.quantity /\ r.product_id = b.child
                      /\ r.code = attrs[b.child].code
                      /\ r.type = attrs[b.child].type
                      /\ r.mass_kg = attrs[b.child].mass_kg
          /\ \A r \in rows : \E b \in edges : r.bom_item_id = b.id]_vars

----------------------------------------------------------------------------
(* The order of the listings *)

\* C31: of any two consecutive items of listRoots, the code of the first is
\* less than or equal to that of the second.
C31_RootsOrderedByCode ==
  \A i \in 1..Len(listRootsInOrder) - 1 :
    LET a == attrs[listRootsInOrder[i]].code
        b == attrs[listRootsInOrder[i + 1]].code
    IN (a # Null /\ b # Null) => CodeRank(a) <= CodeRank(b)

\* The lines of the cart whose item exists, in the order of their ids, each
\* with the code its item has now
LinesWithCurrentCode ==
  LET lines == SelectSeq(cart_items, LAMBDA l : l.product_id \in products) IN
  [i \in 1..Len(lines) |->
     [id |-> lines[i].id, product_id |-> lines[i].product_id,
      quantity |-> lines[i].quantity,
      code |-> attrs[lines[i].product_id].code]]

\* C32: listLines answers with every line of the cart, in the order of the
\* line ids, each with the code its item has in the catalog now.
C32_LinesShowCurrentCode == listLines = LinesWithCurrentCode

----------------------------------------------------------------------------
(* Requests that interleave on the cart *)

\* The step in which the request in slot s, the first of its slot, writes
\* its line
LineWritten(s) ==
  /\ reqs[s].pc \in {"idle", "write"}
  /\ reqs'[s].op = "addLine" /\ reqs'[s].pc = "done"
  /\ cart_items' # cart_items

\* Another request adds the same item: it has read the cart, or is answered
Concurrent(s) ==
  \E u \in Slots \ {s} :
    /\ reqs[u].op = "addLine" /\ reqs[u].pc \in {"write", "done"}
    /\ reqs[u].id = reqs'[s].id

\* C33: when two adds of the same item interleave, each leaves one line for
\* the item, whose quantity is the quantity the cart had for it plus the
\* quantity added: no update is lost and no second line is created.
C33_ConcurrentAddsMerge ==
  [][\A s \in Slots :
       LineWritten(s) /\ Concurrent(s) =>
         /\ Cardinality(LinesOf(cart_items', reqs'[s].id)) = 1
         /\ QuantityOf(cart_items', reqs'[s].id)
              = QuantityOf(cart_items, reqs'[s].id) + reqs'[s].qty]_vars

\* A step of the order placement in slot s
PlaceStep(s) == reqs'[s] # reqs[s] /\ reqs'[s].op = "placeOrder"

\* C34: order placement is all-or-nothing.  The step that answers 201
\* creates one order whose items are the (item, quantity) lines of the cart,
\* in order, and leaves the cart empty; every other step of a placement,
\* whatever its answer, leaves orders, order items and cart as they were.
C34_OrderAllOrNothing ==
  [][\A s \in Slots :
       PlaceStep(s) =>
         IF reqs'[s].status = 201
           THEN /\ reqs'[s].newId \notin orders
                /\ orders' = orders \cup {reqs'[s].newId}
                /\ LET placed == ItemsOfOrder(order_items', reqs'[s].newId) IN
                     /\ Len(placed) = Len(cart_items)
                     /\ \A i \in 1..Len(placed) :
                          /\ placed[i].product_id = cart_items[i].product_id
                          /\ placed[i].quantity = cart_items[i].quantity
                /\ SelectSeq(order_items',
                             LAMBDA r : r.order_id # reqs'[s].newId) = order_items
                /\ cart_items # <<>> /\ cart_items' = <<>>
           ELSE UNCHANGED <<orders, order_items, cart_items>>]_vars

\* An order of two lines has been placed, the cart is empty
C34_Witness ==
  \E s \in Slots :
    /\ reqs[s].op = "placeOrder" /\ reqs[s].status = 201
    /\ Len(ItemsOfOrder(order_items, reqs[s].newId)) = 2
    /\ cart_items = <<>>

\* The cart lines a step removes
LinesRemoved ==
  SelectSeq(cart_items,
            LAMBDA l : \A j \in 1..Len(cart_items') : cart_items'[j].id # l.id)

\* C35: whatever lines are added while an order is placed, every line the
\* order's commit removes from the cart is one of the order's items, with its
\* item and its quantity.
C35_NoLineLostByWipe ==
  [][\A s \in Slots :
       PlaceStep(s) /\ reqs'[s].status = 201 =>
         LET placed == ItemsOfOrder(order_items', reqs'[s].newId) IN
         \A i \in 1..Len(LinesRemoved) :
           \E j \in 1..Len(placed) :
             /\ placed[j].product_id = LinesRemoved[i].product_id
             /\ placed[j].quantity = LinesRemoved[i].quantity]_vars

\* The handler in slot s has been entered and has not answered
Pending(s) == reqs[s].pc \notin {"idle", "off", "done"}

\* C36: every request is answered, whatever storage call fails, and no
\* handler is over while it holds a client of the pool.
C36_EveryRequestAnswered ==
  /\ [](\A s \in Slots :
          reqs[s].pc \in {"done", "dropped"} => reqs[s].client # "held")
  /\ \A s \in Slots : Pending(s) ~> (reqs[s].pc = "done")

====
